---- MODULE Spec2Model ----
(***************************************************************************)
(* S-Mapper: the mapping table, the click counter, the low-level keyboard  *)
(* hooks and the macro worker of KeyMapperApp / MacroThread.               *)
(*                                                                         *)
(* Strings that the code normalises or matches by containment (window      *)
(* substrings, window titles) are sequences of one-character strings, so   *)
(* that lower(), strip() and `in` are computed.  Time is counted in units  *)
(* of 10 ms.                                                               *)
(***************************************************************************)
EXTENDS Integers, Sequences, FiniteSets, TLC

\* ------------------------------------------------------------------ bounds
\* Adds stop once mapping_counter has reached this value.
MaxCounter == 2

\* ------------------------------------------------------------- str helpers
LowerChar(c) == CASE c = "A" -> "a" [] c = "B" -> "b" [] OTHER -> c

\* str.lower() taken to be the identity
Lower_Id(s) == s

\* str.lower()
Lower(s) == [i \in 1..Len(s) |-> LowerChar(s[i])]

RECURSIVE LStrip(_)
LStrip(s) == IF s # <<>> /\ Head(s) = " " THEN LStrip(Tail(s)) ELSE s

RECURSIVE RStrip(_)
RStrip(s) == IF s # <<>> /\ s[Len(s)] = " " THEN RStrip(SubSeq(s, 1, Len(s) - 1)) ELSE s

\* str.strip()
Strip(s) == RStrip(LStrip(s))

\* `sub in s` on Python strings (the empty string is in every string)
Contains(sub, s) ==
  \E i \in 0..(Len(s) - Len(sub)) : SubSeq(s, i + 1, i + Len(sub)) = sub

\* .lower().strip() of a combobox text holding a key or button name
NormKey(k) == CASE k = "Q" -> "q" [] k = " " -> "" [] k = "Left" -> "left" [] OTHER -> k

\* ------------------------------------------------------------------ inputs
\* Text of the press-count entry: int() accepts it (ok) or raises ValueError.
PressOk == [ok |-> TRUE, n |-> 2]
PressBad == [ok |-> FALSE, n |-> 0]

Id(p, n) == [pfx |-> p, n |-> n]
\* None, as the value of _editing_mapping_id / _editing_macro_id
NoId == Id("", 0)

\* A mapping's details dict.  kind tells which keys the dict holds:
\*   keyboard    : source_key, target_key, window_title
\*   mouse       : mouse_button, press_count, keyboard_button, window_title
\*   macro_key   : type='macro', macro_id, window_title, source_key
\*   macro_mouse : type='macro', macro_id, window_title, mouse_button, press_count
Details(kind, sk, tk, mb, pc, kb, mid, w) ==
  [kind |-> kind, source_key |-> sk, target_key |-> tk, mouse_button |-> mb,
   press_count |-> pc, keyboard_button |-> kb, macro_id |-> mid, window_title |-> w]

KeyboardDetails(sk, tk, w) == Details("keyboard", sk, tk, "", 0, "", NoId, w)
MouseDetails(mb, pc, kb, w) == Details("mouse", "", "", mb, pc, kb, NoId, w)
MacroKeyDetails(mid, sk, w) == Details("macro_key", sk, "", "", 0, "", mid, w)
MacroMouseDetails(mid, mb, pc, w) == Details("macro_mouse", "", "", mb, pc, "", mid, w)

\* 'source_key' in details, 'mouse_button' in details, details.get('type') == 'macro'
HasSourceKey(d) == d.kind \in {"keyboard", "macro_key"}
HasMouseButton(d) == d.kind \in {"mouse", "macro_mouse"}
IsMacro(d) == d.kind \in {"macro_key", "macro_mouse"}

\* ------------------------------------------------------------------- state
VARIABLES
  phase,               \* "new" before __init__ has loaded the config, then "running"
  mappings,            \* self.mappings: dict window -> dict id -> details, in insertion order
  mapping_ids,         \* self.mapping_ids
  mapping_counter,     \* self.mapping_counter
  editing_mapping_id,  \* self._editing_mapping_id
  editing_macro_id,    \* self._editing_macro_id
  macros,              \* self.macros
  macros_by_id,        \* self.macros_by_id (the set of [id, macro] pairs)
  last,                \* the last handler that ran, and how it ended
  kbd_available,       \* self._kbd_available
  kbd_enabled,         \* self._kbd_enabled
  keyboard_hooks,      \* self._keyboard_hooks: the source keys that hold a hook handle
  source_index,        \* self._source_index: source key -> list of (window_title, payload)
  cached_active_title, \* self._cached_active_title
  refresh_log,         \* what the last hook refresh did, and how many ran in a row
  lock,                \* self.mappings_lock: the thread that holds it, or "none"
  gui_pc,              \* where the GUI thread is inside a handler that runs in steps
  gui_job,             \* the locals of that handler: the id and the new details dict
  reader,              \* a listener thread inside on_press / on_click: where it is
  now,                 \* time.time(), in units of 10 ms
  click_counts,        \* self.click_counts: button name -> count
  last_click_time,     \* self.last_click_time: button name -> time of the last press
  macro_running,       \* self._macro_running
  last_injected,       \* self._last_injected_event_time
  abort_flag,          \* MacroThread._current_abort is set
  events,              \* the input events handled so far, each with what it led to
  kbd_ignore,          \* self._kbd_ignore: key name -> expiry time
  macro_queue,         \* MacroThread._queue
  stop_flag,           \* MacroThread._stop_event is set
  worker,              \* MacroThread.run: where it is, and its locals
  typed,               \* what the worker's controller was asked to type or press
  watcher,             \* self._active_watcher and its thread: "new" before __init__ made it
  title_timer          \* self._active_title_timer is running

storeVars == <<mappings, mapping_ids, mapping_counter, editing_mapping_id,
               editing_macro_id, macros, macros_by_id>>

hookVars == <<kbd_available, kbd_enabled, keyboard_hooks, source_index,
              cached_active_title, refresh_log>>

\* the two ways the active title is followed
trackVars == <<watcher, title_timer>>

concVars == <<lock, gui_pc, gui_job, reader, trackVars>>

\* the state of the listeners, the hook callbacks and the macro worker
clickVars == <<click_counts, last_click_time>>

workerVars == <<macro_queue, stop_flag, worker, typed>>

eventVars == <<now, clickVars, macro_running, last_injected, abort_flag, events, kbd_ignore,
               workerVars>>

vars == <<phase, storeVars, last, hookVars, concVars, eventVars>>

\* a QMutexLocker that never waits
CanLock_NoMutex == TRUE

\* QMutexLocker(self.mappings_lock) can be entered
CanLock == lock = "none"

\* the GUI thread is between two handlers
GuiIdle == gui_pc = "idle"

\* ------------------------------------------------------- the mapping table
\* self.mappings is a sequence of buckets [win, entries]; entries is a
\* sequence of [id, d].  Both orders are dict insertion orders.

EntryIndex(entries, id) ==
  IF \E i \in 1..Len(entries) : entries[i].id = id
  THEN CHOOSE i \in 1..Len(entries) : entries[i].id = id
  ELSE 0

\* index of the bucket of window w, 0 when `w not in self.mappings`
BucketIndex(m, w) ==
  IF \E i \in 1..Len(m) : m[i].win = w
  THEN CHOOSE i \in 1..Len(m) : m[i].win = w
  ELSE 0

\* the buckets that hold id
BucketsOf(m, id) == { i \in 1..Len(m) : EntryIndex(m[i].entries, id) # 0 }

\* first bucket, in iteration order, that holds id; 0 when none does
FirstBucketOf(m, id) ==
  IF BucketsOf(m, id) = {} THEN 0
  ELSE CHOOSE i \in BucketsOf(m, id) : \A j \in BucketsOf(m, id) : i <= j

RemoveAt(s, i) == SubSeq(s, 1, i - 1) \o SubSeq(s, i + 1, Len(s))

\* del self.mappings[w][id], for the bucket at index bi
DelEntry(m, bi, id) ==
  [m EXCEPT ![bi].entries = RemoveAt(@, EntryIndex(@, id))]

\* if not self.mappings[w]: del self.mappings[w]
PruneBucket(m, bi) == IF m[bi].entries = <<>> THEN RemoveAt(m, bi) ELSE m

\* if w not in self.mappings: self.mappings[w] = {}
EnsureBucket(m, w) ==
  IF BucketIndex(m, w) = 0 THEN Append(m, [win |-> w, entries |-> <<>>]) ELSE m

\* self.mappings[w][id] = d  (an existing key keeps its position)
SetEntry(m, w, id, d) ==
  LET bi == BucketIndex(m, w)
      ei == EntryIndex(m[bi].entries, id)
  IN IF ei = 0
     THEN [m EXCEPT ![bi].entries = Append(@, [id |-> id, d |-> d])]
     ELSE [m EXCEPT ![bi].entries[ei].d = d]

PutMapping(m, w, id, d) == SetEntry(EnsureBucket(m, w), w, id, d)

RECURSIVE FlattenIds(_)
FlattenIds(m) ==
  IF m = <<>> THEN <<>>
  ELSE [i \in 1..Len(m[1].entries) |-> m[1].entries[i].id] \o FlattenIds(Tail(m))

\* update_mappings_display: the id list is rebuilt from the table's iteration
\* order (no details dict is empty: each holds window_title)
DisplayIds(m) == FlattenIds(m)

RECURSIVE FlattenDetails(_)
FlattenDetails(m) ==
  IF m = <<>> THEN <<>>
  ELSE [i \in 1..Len(m[1].entries) |-> m[1].entries[i].d] \o FlattenDetails(Tail(m))

\* ------------------------------------------------------------------- hooks
Keys == { "q", "x" }

\* 'source_key' in details and details['source_key']
Indexed(d) == HasSourceKey(d) /\ d.source_key # ""

\* _refresh_keyboard_hooks, first half: source key -> [(window_title, payload)],
\* in the table's iteration order.  The payload is the details dict for a macro
\* trigger and details.get('target_key') otherwise; both are read off d.
BuildSourceIndex(m) ==
  LET ds == FlattenDetails(m)
      ks == { ds[i].source_key : i \in { j \in 1..Len(ds) : Indexed(ds[j]) } }
  IN [k \in ks |-> SelectSeq(ds, LAMBDA d : Indexed(d) /\ d.source_key = k)]

\* w_title and (w_title.strip().lower() in active_title)
WindowMatches(w, title) == w # <<>> /\ Contains(Strip(Lower(w)), title)

\* _update_hooks_for_active_title: the keys with a bucket entry that matches the
\* title, and every indexed key when none matches.
MatchingKeys(idx, title) ==
  IF title = <<>> THEN {}
  ELSE { k \in DOMAIN idx : \E i \in 1..Len(idx[k]) : WindowMatches(idx[k][i].window_title, title) }

ActiveKeys(idx, title) ==
  IF MatchingKeys(idx, title) = {} THEN DOMAIN idx ELSE MatchingKeys(idx, title)

\* _update_hooks_for_active_title without `if key in self._keyboard_hooks: continue`
UpdateHooksForActiveTitle_Reinstall(h, idx, title, enabled, fails) ==
  IF ~enabled THEN [hooks |-> h, installed |-> 0, removed |-> 0, failed |-> FALSE]
  ELSE LET active == ActiveKeys(idx, title)
           new    == active \ fails
           h2     == h \cup new
       IN [hooks     |-> h2 \cap active,
           installed |-> Cardinality(new),
           removed   |-> Cardinality(h2 \ active),
           failed    |-> active \cap fails # {}]

\* _update_hooks_for_active_title(title) on hook table h with index idx; fails is
\* the set of keys for which kbd.on_press_key raises during this call.
UpdateHooksForActiveTitle(h, idx, title, enabled, fails) ==
  IF ~enabled THEN [hooks |-> h, installed |-> 0, removed |-> 0, failed |-> FALSE]
  ELSE LET active == ActiveKeys(idx, title)
           new    == (active \ h) \ fails
           h2     == h \cup new
       IN [hooks     |-> h2 \cap active,
           installed |-> Cardinality(new),
           removed   |-> Cardinality(h2 \ active),
           failed    |-> (active \ h) \cap fails # {}]

\* _refresh_keyboard_hooks(): rebuild the index, drop the hooks of keys that are
\* no longer source keys, then update the hooks for the cached title.
RefreshKeyboardHooks(h, m, title, enabled, fails) ==
  LET idx == BuildSourceIndex(m)
      h1  == h \cap DOMAIN idx
      r   == UpdateHooksForActiveTitle(h1, idx, title, enabled, fails)
  IN [hooks |-> r.hooks, index |-> idx, installed |-> r.installed,
      removed |-> r.removed + Cardinality(h \ h1), failed |-> r.failed]

\* the guard of every caller, taken to be always False
HooksOn_Never == FALSE

\* The guard of every caller: if self._kbd_available and self._kbd_enabled
HooksOn == kbd_available /\ kbd_enabled

\* The hook part of a handler that ends in a refresh (when HooksOn) of table m.
RefreshAfter(m, fails) ==
  IF HooksOn
  THEN LET r == RefreshKeyboardHooks(keyboard_hooks, m, cached_active_title, kbd_enabled, fails)
       IN /\ keyboard_hooks' = r.hooks
          /\ source_index' = r.index
          /\ refresh_log' =
               [n |-> IF m = mappings /\ kbd_enabled' = kbd_enabled /\ refresh_log.n > 0
                      THEN 2 ELSE 1,
                installed |-> r.installed, removed |-> r.removed,
                same |-> r.hooks = keyboard_hooks,
                failed |-> r.failed, prev_failed |-> refresh_log.failed]
  ELSE /\ UNCHANGED <<keyboard_hooks, source_index>>
       /\ refresh_log' = [refresh_log EXCEPT !.n = IF m = mappings THEN @ ELSE 0]

\* The hook part of a handler that changes the table to m and refreshes nothing.
NoRefresh(m) ==
  /\ UNCHANGED <<keyboard_hooks, source_index>>
  /\ refresh_log' = [refresh_log EXCEPT !.n = IF m = mappings THEN @ ELSE 0]

\* ---------------------------------------------------------- construction
\* A section of mappings.ini as configparser returns it (values stripped, not
\* lower-cased; a missing window_title reads as '').
Section(id, type, w, pc_ok) ==
  [id |-> id, type |-> type, window_title |-> w, source_key |-> "q", target_key |-> "y",
   mouse_button |-> "left", press_ok |-> pc_ok, press_count |-> 2]

\* mappings.ini files (configparser refuses a file that names a section twice)
ConfigFiles ==
  { <<>>,
    << Section(Id("Mapping", 1), "keyboard", <<"a">>, TRUE) >>,
    << Section(Id("Mapping", 2), "keyboard", <<>>, TRUE) >>,
    << Section(Id("Mapping", 1), "mouse", <<"a">>, TRUE),
       Section(Id("Mapping", 2), "macro", <<"a">>, TRUE) >>,
    << Section(Id("Mapping", 1), "keyboard", <<"a">>, TRUE),
       Section(Id("Mapping", 2), "mouse", <<"a", "b">>, TRUE) >>,
    << Section(Id("Mapping", 1), "mouse", <<"a">>, FALSE) >> }

\* the details dict load_mappings_from_config builds for a section
SectionDetails(sec) ==
  IF sec.type = "mouse"
  THEN MouseDetails(sec.mouse_button, sec.press_count, sec.target_key, sec.window_title)
  ELSE KeyboardDetails(sec.source_key, sec.target_key, sec.window_title)

\* a section is stored unless its type is neither mouse nor keyboard, or
\* getint('press_count') raises ValueError
SectionStored(sec) ==
  \/ sec.type = "keyboard"
  \/ sec.type = "mouse" /\ sec.press_ok

\* load_mappings_from_config: the loop over the sections, from an empty table
RECURSIVE LoadSections(_, _)
LoadSections(m, c) ==
  IF c = <<>> THEN m
  ELSE LoadSections(
         IF SectionStored(c[1])
         THEN PutMapping(m, c[1].window_title, c[1].id, SectionDetails(c[1]))
         ELSE m,
         Tail(c))

Max(a, b) == IF a > b THEN a ELSE b

\* highest numeric suffix of the stored section names (0 when there is none)
RECURSIVE HighestNumber(_)
HighestNumber(c) ==
  IF c = <<>> THEN 0
  ELSE Max(IF SectionStored(c[1]) THEN c[1].id.n ELSE 0, HighestNumber(Tail(c)))

\* an action line of a macro: 'sleep:<seconds>' (arg in units of 10 ms),
\* 'text:<text>', 'key:<name>', or a line with another prefix
Act(kind, arg) == [kind |-> kind, arg |-> arg]

\* the action lines of the macros of this model, in the macro file and in the
\* editor alike: "sleep:0.2" and "text:HELLO"
MacroActions == << Act("sleep", 20), Act("text", "HELLO") >>

Macro(id, name, trig, sk, mb, pc, w) ==
  [id |-> id, name |-> name, trigger_type |-> trig, source_key |-> sk,
   mouse_button |-> mb, press_count |-> pc, window_title |-> w, actions |-> MacroActions]

\* macros.ini files
MacroFiles ==
  { <<>>, << Macro(Id("Macro", 2), "m", "keyboard", "q", "", 0, <<"a">>) >> }

\* load_macros_from_config without the tracking of the highest number
HighestMacro_Zero(ms) == 0

RECURSIVE HighestMacro(_)
HighestMacro(ms) ==
  IF ms = <<>> THEN 0 ELSE Max(ms[1].id.n, HighestMacro(Tail(ms)))

ById(ms) == [id \in { ms[i].id : i \in 1..Len(ms) } |->
               LET i == CHOOSE j \in 1..Len(ms) :
                          ms[j].id = id /\ \A k \in 1..Len(ms) : ms[k].id = id => k <= j
               IN ms[i]]

NoDetails == Details("none", "", "", "", 0, "", NoId, <<>>)

\* what the last handler was (op), how it ended (res: "ok", "warned" when it
\* raised a QMessageBox warning, "silent" when it returned early without one),
\* which warning it raised (msg), the id it worked on, the details dict it
\* stored and the bucket it took the mapping from (old)
LogEntry(op, res, msg, id, d, old) ==
  [op |-> op, res |-> res, msg |-> msg, id |-> id, d |-> d, old |-> old]
LogD(op, res, id, d) == LogEntry(op, res, "", id, d, <<>>)
Log(op, res, id) == LogD(op, res, id, NoDetails)
Warned(op, msg, id) == LogEntry(op, "warned", msg, id, NoDetails, <<>>)

\* the worker at the head of its loop, with no macro in hand
\* self._synthetic_input_grace: 0.25 s
grace == 25

Idle == [pc |-> "loop", acts |-> <<>>, i |-> 0, waited |-> 0, rem |-> 0, then |-> "",
         after_abort |-> 0, in_sleep |-> FALSE, stale |-> FALSE, aborted |-> FALSE,
         during |-> FALSE]

NoLog == [n |-> 0, installed |-> 0, removed |-> 0, same |-> TRUE,
          failed |-> FALSE, prev_failed |-> FALSE]

Init ==
  /\ phase = "new"
  /\ mappings = <<>>
  /\ mapping_ids = <<>>
  /\ mapping_counter = 1
  /\ editing_mapping_id = NoId
  /\ editing_macro_id = NoId
  /\ macros = <<>>
  /\ macros_by_id = << >>
  /\ last = Log("none", "ok", NoId)
  /\ kbd_available \in BOOLEAN
  /\ kbd_enabled = kbd_available
  /\ keyboard_hooks = {}
  /\ source_index = << >>
  /\ cached_active_title = <<>>
  /\ refresh_log = NoLog
  /\ lock = "none"
  /\ gui_pc = "idle"
  /\ gui_job = [id |-> NoId, d |-> NoDetails, old |-> <<>>]
  /\ reader = [pc |-> "idle", behind |-> NoId]
  /\ now = 1
  /\ click_counts = << >>
  /\ last_click_time = << >>
  /\ macro_running = FALSE
  \* the stamp 0.0 of __init__ is the epoch: further back than the grace window
  \* at every time the clock shows
  /\ last_injected = 0 - (grace + 1)
  /\ abort_flag = FALSE
  /\ events = <<>>
  /\ kbd_ignore = << >>
  /\ macro_queue = <<>>
  /\ stop_flag = FALSE
  /\ worker = Idle
  /\ typed = <<>>
  /\ watcher = "new"
  /\ title_timer = FALSE

\* KeyMapperApp.__init__: load_mappings_from_config (which ends in a hook
\* refresh), load_macros_from_config, start_listeners (a second hook refresh).
\* f1 and f2 are the keys whose hook installation fails in the two refreshes.
Construct(cfg, mcfg, f1, f2) ==
  /\ phase = "new"
  /\ phase' = "running"
  /\ UNCHANGED <<concVars, eventVars>>
  /\ mappings' = LoadSections(<<>>, cfg)
  /\ mapping_ids' = DisplayIds(mappings')
  /\ macros' = mcfg
  /\ macros_by_id' = ById(mcfg)
  /\ mapping_counter' =
       LET c == HighestNumber(cfg) + 1
       IN IF HighestMacro(mcfg) # 0 THEN Max(c, HighestMacro(mcfg) + 1) ELSE c
  /\ UNCHANGED <<editing_mapping_id, editing_macro_id, kbd_available, kbd_enabled,
                 cached_active_title>>
  /\ last' = Log("load", "ok", NoId)
  /\ IF HooksOn
     THEN LET r1 == RefreshKeyboardHooks(keyboard_hooks, mappings', <<>>, kbd_enabled, f1)
              r2 == RefreshKeyboardHooks(r1.hooks, mappings', <<>>, kbd_enabled, f2)
          IN /\ keyboard_hooks' = r2.hooks
             /\ source_index' = r2.index
             /\ refresh_log' = [n |-> 2, installed |-> r2.installed, removed |-> r2.removed,
                                same |-> r2.hooks = r1.hooks,
                                failed |-> r2.failed, prev_failed |-> r1.failed]
     ELSE UNCHANGED <<keyboard_hooks, source_index, refresh_log>>

\* --------------------------------------------------------- mapping editor
Form(sk, mb, tk, mod, pc, w) ==
  [sk |-> sk, mb |-> mb, tk |-> tk, mod |-> mod, pc |-> pc, w |-> w]

\* The texts of the source key, mouse button, target key and modifier
\* comboboxes, the press-count entry and the window entry.
Forms ==
  { Form("Q", "", "y", "", PressOk, <<"A">>),
    Form("Q", "", "", "", PressOk, <<"A">>),
    Form("Q", "", "", "ctrl", PressOk, <<"A">>),
    Form("Q", "", "y", "", PressOk, <<" ">>),
    Form("", "Left", "y", "ctrl", PressOk, <<"a", "b">>),
    Form("", "Left", "y", "", PressBad, <<"A">>),
    Form("", "Left", "", "", PressOk, <<"A">>),
    Form("", "", "y", "", PressOk, <<"A">>) }

\* .text().lower().strip() of the window entry
NormWindow(w) == Strip(Lower(w))

\* f"{modifier_key} + {target_key}" when a modifier is selected
Combo(mod, tk) == IF mod # "" THEN mod \o " + " \o tk ELSE tk

\* _add_mapping_details, the part under the mutex: the new table, id list and
\* counter; added is FALSE when the empty window title made it return early.
AddMappingDetails(m, ids, ctr, d, given) ==
  IF d.window_title = <<>>
  THEN [mappings |-> m, ids |-> ids, counter |-> ctr, added |-> FALSE, id |-> NoId]
  ELSE LET id == IF given = NoId THEN Id("Mapping", ctr) ELSE given
           m2 == PutMapping(m, d.window_title, id, d)
       IN [mappings |-> m2, ids |-> DisplayIds(m2),
           counter |-> IF given = NoId THEN ctr + 1 ELSE ctr, added |-> TRUE, id |-> id]

\* add_keyboard_mapping / add_mouse_mapping: the details dict, or the reason
\* for the "Input Error" warning
NewMappingDetails(f) ==
  LET w == NormWindow(f.w)
      tk == NormKey(f.tk)
  IN IF f.sk # ""
     THEN IF NormKey(f.sk) = "" \/ tk = "" \/ w = <<>>
          THEN [ok |-> FALSE, msg |-> "fill all required fields"]
          ELSE [ok |-> TRUE, d |-> KeyboardDetails(NormKey(f.sk), Combo(f.mod, tk), w)]
     ELSE IF f.mb # ""
     THEN IF ~f.pc.ok THEN [ok |-> FALSE, msg |-> "invalid press count"]
          ELSE IF NormKey(f.mb) = "" \/ tk = "" \/ w = <<>>
          THEN [ok |-> FALSE, msg |-> "fill all required fields"]
          ELSE [ok |-> TRUE, d |-> MouseDetails(NormKey(f.mb), f.pc.n, Combo(f.mod, tk), w)]
     ELSE [ok |-> FALSE, msg |-> "select a trigger"]

\* add_mapping with no edit in progress
AddMapping(f, fails) ==
  /\ phase = "running"
  /\ GuiIdle /\ CanLock
  /\ UNCHANGED <<concVars, eventVars>>
  /\ editing_mapping_id = NoId
  /\ mapping_counter < MaxCounter
  /\ LET nd == NewMappingDetails(f)
     IN IF ~nd.ok
        THEN /\ last' = Warned("add", nd.msg, NoId)
             /\ NoRefresh(mappings)
             /\ UNCHANGED <<storeVars, kbd_enabled>>
        ELSE LET r == AddMappingDetails(mappings, mapping_ids, mapping_counter, nd.d, NoId)
             IN /\ mappings' = r.mappings
                /\ mapping_ids' = r.ids
                /\ mapping_counter' = r.counter
                /\ last' = Log("add", IF r.added THEN "ok" ELSE "silent", r.id)
                /\ UNCHANGED <<editing_mapping_id, editing_macro_id, macros, macros_by_id,
                               kbd_enabled>>
                /\ IF r.added THEN RefreshAfter(r.mappings, fails) ELSE NoRefresh(mappings)
  /\ UNCHANGED <<phase, kbd_available, cached_active_title>>

\* edit_mapping on row idx of the list
EditMapping(idx) ==
  /\ phase = "running"
  /\ GuiIdle
  /\ UNCHANGED <<concVars, eventVars>>
  /\ idx \in 1..Len(mapping_ids)
  /\ editing_mapping_id' =
       IF BucketsOf(mappings, mapping_ids[idx]) = {} THEN editing_mapping_id
       ELSE mapping_ids[idx]
  /\ last' = Log("edit", "ok", NoId)
  /\ UNCHANGED <<phase, mappings, mapping_ids, mapping_counter, editing_macro_id, macros,
                 macros_by_id, hookVars>>

\* _cancel_editing
CancelEditing ==
  /\ phase = "running"
  /\ GuiIdle
  /\ UNCHANGED <<concVars, eventVars>>
  /\ editing_mapping_id # NoId
  /\ editing_mapping_id' = NoId
  /\ last' = Log("cancel", "ok", NoId)
  /\ UNCHANGED <<phase, mappings, mapping_ids, mapping_counter, editing_macro_id, macros,
                 macros_by_id, hookVars>>

\* _save_edited_mapping without the two `if not target_key` checks
EditedDetails_NoTargetCheck(f) ==
  LET sk == NormKey(f.sk)
      mb == NormKey(f.mb)
      tk == Combo(f.mod, NormKey(f.tk))
      w  == NormWindow(f.w)
  IN IF w = <<>> THEN [ok |-> FALSE, msg |-> "enter a target window"]
     ELSE IF sk # "" THEN [ok |-> TRUE, d |-> KeyboardDetails(sk, tk, w)]
     ELSE IF mb # ""
     THEN IF ~f.pc.ok THEN [ok |-> FALSE, msg |-> "invalid press count"]
          ELSE [ok |-> TRUE, d |-> MouseDetails(mb, f.pc.n, tk, w)]
     ELSE [ok |-> FALSE, msg |-> "select a trigger"]

\* _save_edited_mapping: the new details dict built from the form, or the
\* "Input Error" warning
EditedDetails(f) ==
  LET sk == NormKey(f.sk)
      mb == NormKey(f.mb)
      tk == Combo(f.mod, NormKey(f.tk))
      w  == NormWindow(f.w)
  IN IF w = <<>> THEN [ok |-> FALSE, msg |-> "enter a target window"]
     ELSE IF sk # ""
     THEN IF tk = "" THEN [ok |-> FALSE, msg |-> "specify a target key"]
          ELSE [ok |-> TRUE, d |-> KeyboardDetails(sk, tk, w)]
     ELSE IF mb # ""
     THEN IF ~f.pc.ok THEN [ok |-> FALSE, msg |-> "invalid press count"]
          ELSE IF tk = "" THEN [ok |-> FALSE, msg |-> "specify a target key"]
          ELSE [ok |-> TRUE, d |-> MouseDetails(mb, f.pc.n, tk, w)]
     ELSE [ok |-> FALSE, msg |-> "select a trigger"]

\* Delete old mapping reference; prune the emptied window group
RemoveFromBucket(m, bi, id) == PruneBucket(DelEntry(m, bi, id), bi)

\* _save_edited_mapping that inserts without deleting the old reference
MoveMapping_KeepOld(m, old, id, d) == PutMapping(m, d.window_title, id, d)

\* _save_edited_mapping, the part under the mutex, for a mapping found in
\* bucket old
MoveMapping(m, old, id, d) ==
  PutMapping(RemoveFromBucket(m, old, id), d.window_title, id, d)

\* add_mapping while an edit is in progress: _save_edited_mapping
SaveEditedMapping(f) ==
  /\ phase = "running"
  /\ GuiIdle /\ CanLock
  /\ UNCHANGED <<concVars, eventVars>>
  /\ editing_mapping_id # NoId
  /\ LET id  == editing_mapping_id
         nd  == EditedDetails(f)
         old == FirstBucketOf(mappings, id)
     IN IF ~nd.ok
        THEN /\ last' = Warned("save_edit", nd.msg, id)
             /\ UNCHANGED <<mappings, mapping_ids, editing_mapping_id>>
        ELSE IF old = 0
        THEN /\ last' = LogEntry("save_edit", "lost", "mapping not found", id, NoDetails, <<>>)
             /\ editing_mapping_id' = NoId
             /\ UNCHANGED <<mappings, mapping_ids>>
        ELSE /\ mappings' = MoveMapping(mappings, old, id, nd.d)
             /\ mapping_ids' = DisplayIds(mappings')
             /\ editing_mapping_id' = NoId
             /\ last' = LogEntry("save_edit", "ok", "", id, nd.d, mappings[old].win)
  /\ UNCHANGED <<phase, mapping_counter, editing_macro_id, macros, macros_by_id,
                 kbd_available, kbd_enabled, cached_active_title>>
  /\ NoRefresh(mappings')

\* remove_mapping on the selected row idx
RemoveMapping(idx, fails) ==
  /\ phase = "running"
  /\ GuiIdle /\ CanLock
  /\ UNCHANGED <<concVars, eventVars>>
  /\ idx \in 1..Len(mapping_ids)
  /\ LET id == mapping_ids[idx]
         bi == FirstBucketOf(mappings, id)
     IN /\ mappings' = IF bi = 0 THEN mappings ELSE DelEntry(mappings, bi, id)
        /\ mapping_ids' = DisplayIds(mappings')
        /\ last' = Log("remove", "ok", id)
  /\ UNCHANGED <<phase, mapping_counter, editing_mapping_id, editing_macro_id, macros,
                 macros_by_id, kbd_available, kbd_enabled, cached_active_title>>
  /\ RefreshAfter(mappings', fails)

\* ----------------------------------------------------------- macro editor
MacroForm(name, trig, key, mb, presses, w) ==
  [name |-> name, trig |-> trig, key |-> key, mb |-> mb, presses |-> presses, w |-> w]

\* The macro name, the trigger radio buttons, the trigger key / button
\* comboboxes, the presses spinbox and the trigger window entry.
MacroForms ==
  { MacroForm("", "keyboard", "Q", "", 2, <<"A">>),
    MacroForm("m", "none", "", "", 2, <<>>),
    MacroForm("m", "keyboard", "Q", "", 2, <<"A">>),
    MacroForm("m", "keyboard", "Q", "", 2, <<" ">>),
    MacroForm("m", "mouse", "", "Left", 2, <<"a", "b">>) }

\* the macro dict _add_macro_from_editor / _save_edited_macro build from the form
FormMacro(id, f) ==
  IF f.trig = "keyboard"
  THEN Macro(id, f.name, "keyboard", NormKey(f.key), "", 0, NormWindow(f.w))
  ELSE IF f.trig = "mouse"
  THEN Macro(id, f.name, "mouse", "", NormKey(f.mb), f.presses, NormWindow(f.w))
  ELSE Macro(id, f.name, "none", "", "", 0, <<>>)

\* the trigger mapping of a macro: {'type': 'macro', 'macro_id': ..., ...}
TriggerDetails(mc) ==
  IF mc.trigger_type = "keyboard"
  THEN MacroKeyDetails(mc.id, mc.source_key, mc.window_title)
  ELSE MacroMouseDetails(mc.id, mc.mouse_button, mc.press_count, mc.window_title)

SetById(by, mc) ==
  [id \in DOMAIN by \cup {mc.id} |-> IF id = mc.id THEN mc ELSE by[id]]

\* _add_macro_from_editor with no macro edit in progress
AddMacro(f, fails) ==
  /\ phase = "running"
  /\ GuiIdle /\ CanLock
  /\ UNCHANGED <<concVars, eventVars>>
  /\ editing_macro_id = NoId
  /\ mapping_counter < MaxCounter
  /\ UNCHANGED <<phase, editing_mapping_id, editing_macro_id, kbd_available, kbd_enabled,
                 cached_active_title>>
  /\ IF f.name = ""
     THEN /\ last' = Warned("add_macro", "provide a name", NoId)
          /\ UNCHANGED <<mappings, mapping_ids, mapping_counter, macros, macros_by_id>>
          /\ NoRefresh(mappings)
     ELSE LET id == Id("Macro", mapping_counter)
              mc == FormMacro(id, f)
              r  == IF mc.trigger_type = "none"
                    THEN [mappings |-> mappings, ids |-> mapping_ids, added |-> FALSE]
                    ELSE AddMappingDetails(mappings, mapping_ids, mapping_counter + 1,
                                           TriggerDetails(mc), id)
          IN /\ macros' = Append(macros, mc)
             /\ macros_by_id' = SetById(macros_by_id, mc)
             /\ mapping_counter' = mapping_counter + 1
             /\ mappings' = r.mappings
             /\ mapping_ids' = r.ids
             /\ last' = Log("add_macro",
                            IF mc.trigger_type = "none" \/ r.added THEN "ok" ELSE "silent", id)
             /\ IF r.added THEN RefreshAfter(r.mappings, fails) ELSE NoRefresh(mappings)

\* edit_macro on row idx of the macro list
EditMacro(idx) ==
  /\ phase = "running"
  /\ GuiIdle
  /\ UNCHANGED <<concVars, eventVars>>
  /\ idx \in 1..Len(macros)
  /\ editing_macro_id' = macros[idx].id
  /\ last' = Log("edit_macro", "ok", NoId)
  /\ UNCHANGED <<phase, mappings, mapping_ids, mapping_counter, editing_mapping_id, macros,
                 macros_by_id, hookVars>>

\* _cancel_macro_editing
CancelMacroEditing ==
  /\ phase = "running"
  /\ GuiIdle
  /\ UNCHANGED <<concVars, eventVars>>
  /\ editing_macro_id # NoId
  /\ editing_macro_id' = NoId
  /\ last' = Log("cancel_macro", "ok", NoId)
  /\ UNCHANGED <<phase, mappings, mapping_ids, mapping_counter, editing_mapping_id, macros,
                 macros_by_id, hookVars>>

\* for w in list(self.mappings.keys()): delete id from every bucket that holds
\* it, pruning each bucket that becomes empty
RECURSIVE RemoveEverywhere(_, _)
RemoveEverywhere(m, id) ==
  IF BucketsOf(m, id) = {} THEN m
  ELSE RemoveEverywhere(RemoveFromBucket(m, FirstBucketOf(m, id), id), id)

MacroIndex(ms, id) ==
  IF \E i \in 1..Len(ms) : ms[i].id = id
  THEN CHOOSE i \in 1..Len(ms) : ms[i].id = id /\ \A j \in 1..Len(ms) : ms[j].id = id => i <= j
  ELSE 0

\* _add_macro_from_editor while a macro edit is in progress: _save_edited_macro
SaveEditedMacro(f, fails) ==
  /\ phase = "running"
  /\ GuiIdle /\ CanLock
  /\ UNCHANGED <<concVars, eventVars>>
  /\ editing_macro_id # NoId
  /\ UNCHANGED <<phase, mapping_counter, editing_mapping_id, kbd_available, kbd_enabled,
                 cached_active_title>>
  /\ LET id  == editing_macro_id
         idx == MacroIndex(macros, id)
     IN IF idx = 0
        THEN /\ editing_macro_id' = NoId
             /\ last' = Log("save_macro", "lost", id)
             /\ UNCHANGED <<mappings, mapping_ids, macros, macros_by_id>>
             /\ NoRefresh(mappings)
        ELSE IF f.name = ""
        THEN /\ last' = Warned("save_macro", "provide a name", id)
             /\ UNCHANGED <<mappings, mapping_ids, macros, macros_by_id, editing_macro_id>>
             /\ NoRefresh(mappings)
        ELSE LET mc == FormMacro(id, f)
                 m1 == RemoveEverywhere(mappings, id)
                 tr == mc.trigger_type # "none" /\ mc.window_title # <<>>
                 r  == IF tr
                       THEN AddMappingDetails(m1, mapping_ids, mapping_counter,
                                              TriggerDetails(mc), id)
                       ELSE [mappings |-> m1, ids |-> mapping_ids, added |-> FALSE]
             IN /\ macros' = [macros EXCEPT ![idx] = mc]
                /\ macros_by_id' = SetById(macros_by_id, mc)
                /\ mappings' = r.mappings
                /\ mapping_ids' = r.ids
                /\ editing_macro_id' = NoId
                /\ last' = Log("save_macro",
                               IF mc.trigger_type = "none" \/ tr THEN "ok" ELSE "silent", id)
                /\ IF r.added THEN RefreshAfter(r.mappings, fails) ELSE NoRefresh(r.mappings)

\* _remove_selected_macro on row idx of the macro list
RemoveMacro(idx) ==
  /\ phase = "running"
  /\ GuiIdle
  /\ UNCHANGED <<concVars, eventVars>>
  /\ idx \in 1..Len(macros)
  /\ macros' = RemoveAt(macros, idx)
  /\ mappings' = RemoveEverywhere(mappings, macros[idx].id)
  /\ last' = Log("remove_macro", "ok", macros[idx].id)
  /\ UNCHANGED <<phase, mapping_ids, mapping_counter, editing_mapping_id, editing_macro_id,
                 macros_by_id, kbd_available, kbd_enabled, cached_active_title>>
  /\ NoRefresh(mappings')

\* ----------------------------------------------------------- the editors
\* the keys whose kbd.on_press_key call raises during one refresh
KeySets == { {}, {"q"} }

\* the editors' state when the 'keyboard' package cannot be imported
InitStore == Init /\ ~kbd_available

\* (no hook is installed here, so no installation fails)
StoreNext ==
  \/ \E cfg \in ConfigFiles, mcfg \in MacroFiles : Construct(cfg, mcfg, {}, {})
  \/ \E f \in Forms : AddMapping(f, {})
  \/ \E idx \in 1..(MaxCounter) : EditMapping(idx)
  \/ CancelEditing
  \/ \E f \in Forms : SaveEditedMapping(f)
  \/ \E idx \in 1..(MaxCounter) : RemoveMapping(idx, {})
  \/ \E f \in MacroForms : AddMacro(f, {})
  \/ \E idx \in 1..(MaxCounter + 1) : EditMacro(idx)
  \/ CancelMacroEditing
  \/ \E f \in MacroForms : SaveEditedMacro(f, {})
  \/ \E idx \in 1..(MaxCounter + 1) : RemoveMacro(idx)

\* The editors (mapping and macro tabs) on the GUI thread, each handler atomic.
SpecStore == InitStore /\ [][StoreNext]_vars

\* ------------------------------------------------- properties of the store
\* C1: in every reachable state no bucket of the mapping table is keyed by the
\* empty window substring and no stored mapping has an empty window_title.
C1_NoEmptyWindow ==
  \A i \in 1..Len(mappings) :
    /\ mappings[i].win # <<>>
    /\ \A j \in 1..Len(mappings[i].entries) :
         mappings[i].entries[j].d.window_title # <<>>

\* the form asks for a mapping under an empty window substring
EmptyWindowForm(f) == NormWindow(f.w) = <<>>
EmptyWindowMacroForm(f) == f.name # "" /\ f.trig # "none" /\ NormWindow(f.w) = <<>>

\* C2: every handler that is asked to add a mapping (a plain one, or a macro's
\* trigger mapping) or to save an edit with an empty window substring ends in
\* a warning, and leaves the table, the id list and the counter as they were.
C2_EmptyWindowRejected ==
  [][ /\ \A f \in Forms :
           (EmptyWindowForm(f) /\ (AddMapping(f, {})
                                      \/ SaveEditedMapping(f)))
           => (last'.res = "warned"
               /\ UNCHANGED <<mappings, mapping_ids, mapping_counter>>)
      /\ \A f \in MacroForms :
           (EmptyWindowMacroForm(f) /\ AddMacro(f, {}))
           => (last'.res = "warned"
               /\ UNCHANGED <<mappings, mapping_ids, mapping_counter>>) ]_vars

\* the form of a keyboard or mouse mapping whose target combo (the modifier
\* joined to the target key) is the empty string
EmptyTargetForm(f) ==
  /\ NormKey(f.sk) # "" \/ NormKey(f.mb) # ""
  /\ Combo(f.mod, NormKey(f.tk)) = ""

\* C3: saving an edit with an empty target combo raises a warning, leaves the
\* mapping table as it was and keeps the editor in edit mode for the same id.
C3_EmptyTargetRejected ==
  [][ \A f \in Forms :
        (EmptyTargetForm(f) /\ SaveEditedMapping(f))
        => /\ last'.res = "warned"
           /\ mappings' = mappings
           /\ editing_mapping_id' = editing_mapping_id
           /\ editing_mapping_id' # NoId ]_vars

\* C3 happens: the target-key warning was raised for a mapping that is in the
\* table, and the editor still edits it.
C3_Witness ==
  /\ last.op = "save_edit" /\ last.res = "warned"
  /\ last.msg = "specify a target key"
  /\ editing_mapping_id = last.id
  /\ BucketsOf(mappings, last.id) # {}

\* C4: right after a successful save of an edited mapping the id is in exactly
\* one bucket, the bucket of the new window substring, with the new details.
C4_MovedToOneBucket ==
  (last.op = "save_edit" /\ last.res = "ok")
  => /\ Cardinality(BucketsOf(mappings, last.id)) = 1
     /\ LET b == mappings[FirstBucketOf(mappings, last.id)]
        IN /\ b.win = last.d.window_title
           /\ b.entries[EntryIndex(b.entries, last.id)].d = last.d

\* C4 happens: a save moved a mapping to another window while its old bucket
\* still holds another mapping.
C4_Witness ==
  /\ last.op = "save_edit" /\ last.res = "ok"
  /\ last.old # last.d.window_title
  /\ BucketIndex(mappings, last.old) # 0
  /\ BucketIndex(mappings, last.d.window_title) # 0

\* ------------------------------------------- the GUI thread and a listener
\* _save_edited_mapping, _remove_selected_macro and a listener callback run
\* statement by statement.  gui_pc names the statement the GUI thread is about
\* to execute; reader.pc does the same for the listener thread.

\* _save_edited_mapping up to the `with QMutexLocker`: the form is read and
\* checked, nothing is locked yet
SaveBegin(f) ==
  /\ phase = "running"
  /\ GuiIdle
  /\ editing_mapping_id # NoId
  /\ LET nd == EditedDetails(f)
     IN IF ~nd.ok
        THEN /\ last' = Warned("save_edit", nd.msg, editing_mapping_id)
             /\ UNCHANGED <<gui_pc, gui_job>>
        ELSE /\ gui_pc' = "save_lock"
             /\ gui_job' = [id |-> editing_mapping_id, d |-> nd.d, old |-> <<>>]
             /\ UNCHANGED last
  /\ UNCHANGED <<phase, trackVars, storeVars, hookVars, lock, reader, eventVars>>

\* with QMutexLocker(self.mappings_lock): and the search for old_window
SaveLock ==
  /\ gui_pc = "save_lock"
  /\ CanLock
  /\ LET old == FirstBucketOf(mappings, gui_job.id)
     IN IF old = 0
        THEN /\ last' = LogEntry("save_edit", "lost", "mapping not found", gui_job.id,
                                 NoDetails, <<>>)
             /\ editing_mapping_id' = NoId
             /\ gui_pc' = "idle"
             /\ UNCHANGED <<lock, gui_job>>
        ELSE /\ lock' = "gui"
             /\ gui_pc' = "save_del"
             /\ gui_job' = [gui_job EXCEPT !.old = mappings[old].win]
             /\ UNCHANGED <<last, editing_mapping_id>>
  /\ UNCHANGED <<phase, trackVars, mappings, mapping_ids, mapping_counter, editing_macro_id, macros,
                 macros_by_id, hookVars, reader, eventVars>>

\* del self.mappings[old_window][mapping_id], and the pruning of the bucket
SaveDelete ==
  /\ gui_pc = "save_del"
  /\ mappings' = RemoveFromBucket(mappings, BucketIndex(mappings, gui_job.old), gui_job.id)
  /\ gui_pc' = "save_ins"
  /\ UNCHANGED <<phase, trackVars, mapping_ids, mapping_counter, editing_mapping_id, editing_macro_id,
                 macros, macros_by_id, last, hookVars, lock, gui_job, reader, eventVars>>

\* self.mappings[target_window][mapping_id] = new_details, the end of the
\* with block, then _exit_edit_mode and update_mappings_display
SaveInsert ==
  /\ gui_pc = "save_ins"
  /\ mappings' = PutMapping(mappings, gui_job.d.window_title, gui_job.id, gui_job.d)
  /\ mapping_ids' = DisplayIds(mappings')
  /\ lock' = IF lock = "gui" THEN "none" ELSE lock
  /\ editing_mapping_id' = NoId
  /\ gui_pc' = "idle"
  /\ last' = LogEntry("save_edit", "ok", "", gui_job.id, gui_job.d, gui_job.old)
  /\ UNCHANGED <<phase, trackVars, mapping_counter, editing_macro_id, macros, macros_by_id,
                 kbd_available, kbd_enabled, cached_active_title, gui_job, reader, eventVars>>
  /\ NoRefresh(mappings')

\* _remove_selected_macro up to the walk over the buckets: del self.macros[sel]
RemoveMacroBegin(idx) ==
  /\ phase = "running"
  /\ GuiIdle
  /\ idx \in 1..Len(macros)
  /\ macros' = RemoveAt(macros, idx)
  /\ gui_job' = [id |-> macros[idx].id, d |-> NoDetails, old |-> <<>>]
  /\ gui_pc' = IF BucketsOf(mappings, macros[idx].id) = {} THEN "rm_done" ELSE "rm_del"
  /\ UNCHANGED <<phase, trackVars, mappings, mapping_ids, mapping_counter, editing_mapping_id,
                 editing_macro_id, macros_by_id, last, hookVars, lock, reader, eventVars>>

\* del self.mappings[w][macro_id] for the next bucket w that holds the id
RemoveMacroDelete ==
  /\ gui_pc = "rm_del"
  /\ LET bi == FirstBucketOf(mappings, gui_job.id)
     IN /\ mappings' = DelEntry(mappings, bi, gui_job.id)
        /\ gui_job' = [gui_job EXCEPT !.old = mappings[bi].win]
  /\ gui_pc' = "rm_prune"
  /\ UNCHANGED <<phase, trackVars, mapping_ids, mapping_counter, editing_mapping_id, editing_macro_id,
                 macros, macros_by_id, last, hookVars, lock, reader, eventVars>>

\* if not self.mappings[w]: del self.mappings[w], and on to the next bucket
RemoveMacroPrune ==
  /\ gui_pc = "rm_prune"
  /\ mappings' = PruneBucket(mappings, BucketIndex(mappings, gui_job.old))
  /\ gui_pc' = IF BucketsOf(mappings', gui_job.id) = {} THEN "rm_done" ELSE "rm_del"
  /\ UNCHANGED <<phase, trackVars, mapping_ids, mapping_counter, editing_mapping_id, editing_macro_id,
                 macros, macros_by_id, last, hookVars, lock, gui_job, reader, eventVars>>

\* the rest of _remove_selected_macro (the displays and the two saves)
RemoveMacroEnd ==
  /\ gui_pc = "rm_done"
  /\ gui_pc' = "idle"
  /\ last' = Log("remove_macro", "ok", gui_job.id)
  /\ UNCHANGED <<phase, trackVars, storeVars, kbd_available, kbd_enabled, cached_active_title, lock,
                 gui_job, reader, eventVars>>
  /\ NoRefresh(mappings)

\* pynput calls on_press / on_click on the listener thread.  behind is the id
\* of the mapping a save is moving at that moment under the mutex.
ReaderCall ==
  /\ phase = "running"
  /\ reader.pc = "idle"
  /\ reader' = [pc |-> "lock",
                behind |-> IF gui_pc \in { "save_del", "save_ins" } THEN gui_job.id
                           ELSE NoId]
  /\ UNCHANGED <<phase, trackVars, storeVars, last, hookVars, lock, gui_pc, gui_job, eventVars>>

\* with QMutexLocker(self.mappings_lock):
ReaderLock ==
  /\ reader.pc = "lock"
  /\ CanLock
  /\ lock' = "reader"
  /\ reader' = [reader EXCEPT !.pc = "read"]
  /\ UNCHANGED <<phase, trackVars, storeVars, last, hookVars, gui_pc, gui_job, eventVars>>

\* the scan of self.mappings and the end of the with block
ReaderRead ==
  /\ reader.pc = "read"
  /\ lock' = IF lock = "reader" THEN "none" ELSE lock
  /\ reader' = [pc |-> "idle", behind |-> NoId]
  /\ UNCHANGED <<phase, trackVars, storeVars, last, hookVars, gui_pc, gui_job, eventVars>>

ConcNext ==
  \/ \E cfg \in ConfigFiles, mcfg \in MacroFiles : Construct(cfg, mcfg, {}, {})
  \/ \E idx \in 1..(MaxCounter) : EditMapping(idx)
  \/ \E f \in MacroForms : AddMacro(f, {})
  \/ \E f \in Forms : SaveBegin(f)
  \/ SaveLock
  \/ SaveDelete
  \/ SaveInsert
  \/ \E idx \in 1..(MaxCounter + 1) : RemoveMacroBegin(idx)
  \/ RemoveMacroDelete
  \/ RemoveMacroPrune
  \/ RemoveMacroEnd
  \/ ReaderCall
  \/ ReaderLock
  \/ ReaderRead

\* The GUI thread and one listener thread, interleaved statement by statement.
SpecConc == InitStore /\ [][ConcNext]_vars

\* ------------------------------------------ properties of the interleaving
\* a save of an edited mapping has begun for a mapping that is in the table,
\* and has not finished
Moving ==
  \/ gui_pc \in { "save_del", "save_ins" }
  \/ gui_pc = "save_lock" /\ BucketsOf(mappings, gui_job.id) # {}

\* the listener reads right after the save it had to wait for
ReadsBehindSave ==
  /\ reader.pc = "read" /\ reader.behind # NoId
  /\ GuiIdle
  /\ last.op = "save_edit" /\ last.res = "ok" /\ last.id = reader.behind

\* C5: whenever a listener reads the mapping table (it is inside its critical
\* section) while a save of an edited mapping is in progress, or right after a
\* save it had to wait for, the mapping being moved is in exactly one bucket:
\* the listener sees it neither in no bucket nor in two.
C5_NoMidMoveRead ==
  /\ (reader.pc = "read" /\ Moving) => Cardinality(BucketsOf(mappings, gui_job.id)) = 1
  /\ ReadsBehindSave => Cardinality(BucketsOf(mappings, reader.behind)) = 1

\* C5 happens: the listener was called while the save held the mutex in the
\* middle of a move to another window, and reads once the save has finished.
C5_Witness ==
  /\ ReadsBehindSave
  /\ last.old # last.d.window_title

\* C6: whenever the GUI thread is about to write to the mapping table inside a
\* handler, it holds the mappings mutex; and no listener is reading the table
\* between the first and the last write of a handler.
C6_MutationsUnderMutex ==
  /\ gui_pc \in { "save_del", "save_ins", "rm_del", "rm_prune" } => lock = "gui"
  /\ reader.pc = "read" => gui_pc \notin { "save_ins", "rm_prune" }

\* ------------------------------------------------------ the mouse listener
\* self.click_interval: 0.6 s
click_interval == 60

\* the longest time the clock is followed for
MaxTime == 91

\* the number of input events that are followed
MaxEvents == 3

\* the time that passes between two events
Gaps == { 10, 30 }

Buttons == { "left", "right" }

\* the titles the active-window watcher reports
Titles == { <<"A", " ">> }

\* time passes
Tick(g, limit) ==
  /\ phase = "running"
  /\ now + g <= limit
  /\ now' = now + g
  /\ UNCHANGED <<phase, storeVars, last, hookVars, concVars, clickVars, macro_running,
                 last_injected, abort_flag, events, kbd_ignore, workerVars>>

\* _on_active_window_changed / _update_cached_active_title: the normalised
\* title is stored, and the hooks follow it when it differs from the old one
ActiveWindowChanged(title, fails) ==
  /\ phase = "running"
  /\ GuiIdle
  /\ cached_active_title' = Strip(Lower(title))
  /\ IF cached_active_title' # cached_active_title /\ HooksOn
     THEN LET r == UpdateHooksForActiveTitle(keyboard_hooks, source_index,
                                             cached_active_title', kbd_enabled, fails)
          IN /\ keyboard_hooks' = r.hooks
             /\ refresh_log' = [refresh_log EXCEPT !.n = 0, !.failed = r.failed]
     ELSE /\ UNCHANGED keyboard_hooks
          /\ refresh_log' = IF cached_active_title' # cached_active_title
                            THEN [refresh_log EXCEPT !.n = 0] ELSE refresh_log
  /\ UNCHANGED <<phase, storeVars, last, kbd_available, kbd_enabled, source_index, concVars,
                 eventVars>>

\* self.click_counts.get(b) after setdefault(b, 0); self.last_click_time.get(b)
CountOf(b) == IF b \in DOMAIN click_counts THEN click_counts[b] ELSE 0
LastClickOf(b) == IF b \in DOMAIN last_click_time THEN last_click_time[b] ELSE 0

\* on_click without the reset of a stale count
Counted_NoReset(b) == CountOf(b) + 1

\* on_click: the count of the button once the press is counted
Counted(b) ==
  (IF LastClickOf(b) # 0 /\ (now - LastClickOf(b)) > click_interval THEN 0 ELSE CountOf(b)) + 1

\* on_click's test of a mapping without the comparison of press_count
FirstHit_AnyCount(entries, b, n) ==
  LET hits == { i \in 1..Len(entries) :
                  /\ HasMouseButton(entries[i].d)
                  /\ NormKey(entries[i].d.mouse_button) = b }
  IN IF hits = {} THEN 0 ELSE CHOOSE i \in hits : \A j \in hits : i <= j

\* on_click: the first mapping of a bucket for this button and this count
FirstHit(entries, b, n) ==
  LET hits == { i \in 1..Len(entries) :
                  /\ HasMouseButton(entries[i].d)
                  /\ NormKey(entries[i].d.mouse_button) = b
                  /\ entries[i].d.press_count = n }
  IN IF hits = {} THEN 0 ELSE CHOOSE i \in hits : \A j \in hits : i <= j

\* action_to_run is truthy: a macro's details dict, or a non-empty key name
Runnable(d) == IsMacro(d) \/ d.keyboard_button # ""

\* on_click: the scan of the table under the mutex.  A hit resets the count
\* to 0; the scan goes on to the next bucket while action_to_run is falsy.
RECURSIVE ScanClick(_, _, _, _)
ScanClick(m, title, b, n) ==
  IF m = <<>> THEN [count |-> n, act |-> NoDetails]
  ELSE LET hit == IF Contains(Strip(Lower(m[1].win)), title)
                  THEN FirstHit(m[1].entries, b, n) ELSE 0
       IN IF hit = 0 THEN ScanClick(Tail(m), title, b, n)
          ELSE IF Runnable(m[1].entries[hit].d)
          THEN [count |-> 0, act |-> m[1].entries[hit].d]
          ELSE ScanClick(Tail(m), title, b, 0)

\* an input event: its time, the active title its handler read, what the
\* handler did (out) and the action it dispatched (act)
Event(kind, name, out, act) ==
  [kind |-> kind, name |-> name, t |-> now, title |-> cached_active_title,
   out |-> out, act |-> act]

\* the item assignment dropped
SetKey_Keep(f, k, v) == f

SetKey(f, k, v) == [x \in DOMAIN f \cup {k} |-> IF x = k THEN v ELSE f[x]]

\* _handle_mapping_action(act), the slot of mapping_action_signal, for a macro
\* trigger: the queue once the macro named by the trigger is enqueued
Dispatched(q, act) ==
  IF IsMacro(act) /\ act.macro_id \in DOMAIN macros_by_id
  THEN Append(q, macros_by_id[act.macro_id]) ELSE q

\* getattr(self, '_macro_running', False), taken to be always False
Busy_Never == FALSE

\* getattr(self, '_macro_running', False)
Busy == macro_running

\* the grace test, taken to succeed always
IsEcho_Always == TRUE

\* (now - last_injected) <= grace: the event is taken for the macro's own echo
IsEcho == (now - last_injected) <= grace

\* on_click(x, y, button, pressed) on the mouse listener thread, with the slot
\* of the signal it emits
OnClick(b, pressed) ==
  /\ phase = "running"
  /\ CanLock
  /\ Len(events) < MaxEvents
  /\ UNCHANGED <<phase, storeVars, last, hookVars, concVars, now, macro_running,
                 last_injected, kbd_ignore, stop_flag, worker, typed>>
  /\ IF ~pressed
     THEN UNCHANGED <<clickVars, abort_flag, events, macro_queue>>
     ELSE IF cached_active_title = <<>>
     THEN /\ events' = Append(events, Event("click", b, "no title", NoDetails))
          /\ UNCHANGED <<clickVars, abort_flag, macro_queue>>
     ELSE LET r == ScanClick(mappings, cached_active_title, b, Counted(b))
          IN /\ click_counts' = SetKey(click_counts, b, r.count)
             /\ last_click_time' = SetKey(last_click_time, b, now)
             /\ IF ~Runnable(r.act)
                THEN /\ events' = Append(events, Event("click", b, "none", NoDetails))
                     /\ UNCHANGED <<abort_flag, macro_queue>>
                ELSE IF Busy
                THEN IF IsEcho
                     THEN /\ events' = Append(events, Event("click", b, "echo", NoDetails))
                          /\ UNCHANGED <<abort_flag, macro_queue>>
                     ELSE /\ events' = Append(events, Event("click", b, "abort", NoDetails))
                          /\ abort_flag' = TRUE
                          /\ UNCHANGED macro_queue
                ELSE /\ events' = Append(events, Event("click", b, "emit", r.act))
                     /\ macro_queue' = Dispatched(macro_queue, r.act)
                     /\ UNCHANGED abort_flag

\* the mappings.ini files that hold a mouse mapping
MouseConfigs == { c \in ConfigFiles : \E i \in 1..Len(c) : c[i].type = "mouse" /\ c[i].press_ok }

ClickNext ==
  \/ \E cfg \in MouseConfigs : Construct(cfg, <<>>, {}, {})
  \/ \E t \in Titles : ActiveWindowChanged(t, {})
  \/ \E g \in Gaps : Tick(g, MaxTime)
  \/ \E b \in Buttons, pressed \in BOOLEAN : OnClick(b, pressed)

\* The mouse listener over a loaded table.
SpecClick == InitStore /\ [][ClickNext]_vars

\* --------------------------------------------- properties of click counting
\* the mouse mappings of the table that are for button b and window title
MouseMappingsFor(b, title) ==
  LET ds == FlattenDetails(mappings)
  IN { i \in 1..Len(ds) : /\ HasMouseButton(ds[i])
                          /\ ds[i].mouse_button = b
                          /\ Contains(ds[i].window_title, title) }

\* the only presses so far are three presses of the left button at t, t + 0.1 s
\* and t + 0.9 s, in a window for which the table holds one mouse mapping of
\* that button, with press_count = 2
ThreePresses ==
  /\ Len(events) = 3
  /\ \A i \in 1..3 : /\ events[i].kind = "click" /\ events[i].name = "left"
                     /\ events[i].title = events[1].title
  /\ events[2].t = events[1].t + 10
  /\ events[3].t = events[1].t + 90
  /\ Cardinality(MouseMappingsFor("left", events[1].title)) = 1
  /\ \A i \in MouseMappingsFor("left", events[1].title) :
       FlattenDetails(mappings)[i].press_count = 2

\* the counting rule of one press of button b
CountingRule(b) ==
  LET stale == b \in DOMAIN last_click_time /\ now - last_click_time[b] > click_interval
      n     == (IF stale THEN 0 ELSE CountOf(b)) + 1
      e     == events'[Len(events')]
  IN /\ last_click_time'[b] = now
     /\ click_counts'[b] = IF e.out = "none" THEN n ELSE 0
     /\ e.out # "none" => \E i \in MouseMappingsFor(b, cached_active_title) :
                              FlattenDetails(mappings)[i].press_count = n

UnhookAllKeyboardHooks_KeepFailed(h, fails) ==
  IF ~kbd_available THEN h ELSE h \cap fails

\* _unhook_all_keyboard_hooks on hook table h; fails is the set of keys whose
\* kbd.unhook raises
UnhookAllKeyboardHooks(h, fails) ==
  IF ~kbd_available THEN h ELSE {}

\* _on_kbd_suppression_toggled(checked); fails is the set of keys for which the
\* kbd call of this handler (on_press_key when enabling, unhook when
\* disabling) raises.  _refresh_keyboard_hooks swallows those exceptions, so
\* the handler's `except` branch (revert and warn) is not entered; the status
\* label, logged in last, reads enabled or disabled.
SuppressionToggled(checked, fails) ==
  /\ phase = "running"
  /\ GuiIdle
  /\ kbd_enabled' = checked
  /\ last' = Log("toggle", IF kbd_available /\ checked THEN "enabled" ELSE "disabled", NoId)
  /\ IF kbd_available /\ checked
     THEN LET r == RefreshKeyboardHooks(keyboard_hooks, mappings, cached_active_title,
                                        TRUE, fails)
          IN /\ keyboard_hooks' = r.hooks
             /\ source_index' = r.index
             /\ refresh_log' = [n |-> IF kbd_enabled /\ refresh_log.n > 0 THEN 2 ELSE 1,
                                installed |-> r.installed, removed |-> r.removed,
                                same |-> r.hooks = keyboard_hooks,
                                failed |-> r.failed, prev_failed |-> refresh_log.failed]
     ELSE /\ keyboard_hooks' = UnhookAllKeyboardHooks(keyboard_hooks, fails)
          /\ refresh_log' = [refresh_log EXCEPT !.n = 0]
          /\ UNCHANGED source_index
  /\ UNCHANGED <<phase, storeVars, kbd_available, cached_active_title, concVars,
                 eventVars>>

\* the forms of keyboard mappings for two source keys
HookForms ==
  { Form("Q", "", "y", "", PressOk, <<"A">>),
    Form("x", "", "y", "", PressOk, <<"a", "b">>),
    Form("x", "", "q", "", PressOk, <<"c">>) }

HookTitles == { <<>>, <<"A", " ">>, <<"a", "b">>, <<"c">> }

\* the state when the 'keyboard' package was imported
InitHooks == Init /\ kbd_available

HooksNext ==
  \/ \E cfg \in ConfigFiles, f1 \in KeySets, f2 \in KeySets : Construct(cfg, <<>>, f1, f2)
  \/ \E f \in HookForms, fails \in KeySets : AddMapping(f, fails)
  \/ \E idx \in 1..(MaxCounter), fails \in KeySets : RemoveMapping(idx, fails)
  \/ \E t \in HookTitles, fails \in KeySets : ActiveWindowChanged(t, fails)
  \/ \E checked \in BOOLEAN, fails \in KeySets : SuppressionToggled(checked, fails)

\* The hook manager: loads, adds, removes, title changes and the toggle.
SpecHooks == InitHooks /\ [][HooksNext]_vars

ignore_window == 25

\* the purge at the head of the callback: entries with t < now are deleted
Purged_Never(ig) == ig

Purged(ig) ==
  [n \in { x \in DOMAIN ig : ~(ig[x] < now) } |-> ig[n]]

\* str(tk).replace(' + ', '+').replace(' ', '') for the target keys of the forms
TargetName(tk) ==
  CASE tk = "ctrl + y" -> "ctrl+y"
    [] tk = "ctrl + q" -> "ctrl+q"
    [] OTHER -> tk

\* the scan of the bucket without the test of the window
FirstMatch_Any(bucket, title) == IF bucket = <<>> THEN 0 ELSE 1

\* the first (w_title, tk) of the bucket whose window matches the title, 0 if none
FirstMatch(bucket, title) ==
  LET hits == { i \in 1..Len(bucket) : WindowMatches(bucket[i].window_title, title) }
  IN IF hits = {} THEN 0 ELSE CHOOSE i \in hits : \A j \in hits : i <= j

\* the test of the title, taken to fail always
TitleMissing_Never(title) == FALSE

\* if not title: return
TitleMissing(title) == title = <<>>

\* callback(event) of the hook installed for source key k, on the hook thread,
\* with the slot of the signal it emits.  held: kbd.is_pressed finds a modifier
\* down.
KeyEvent(k, down, held) ==
  /\ phase = "running"
  /\ k \in keyboard_hooks
  /\ Len(events) < MaxEvents
  /\ UNCHANGED <<phase, storeVars, last, hookVars, concVars, now, clickVars, macro_running,
                 last_injected, abort_flag, stop_flag, worker, typed>>
  /\ IF ~down
     THEN UNCHANGED <<events, kbd_ignore, macro_queue>>
     ELSE LET ig == Purged(kbd_ignore)
              bucket == IF k \in DOMAIN source_index THEN source_index[k] ELSE <<>>
              hit == FirstMatch(bucket, cached_active_title)
          IN IF k \in DOMAIN ig
             THEN /\ events' = Append(events, Event("key", k, "guarded", NoDetails))
                  /\ kbd_ignore' = ig
                  /\ UNCHANGED macro_queue
             ELSE IF held
             THEN /\ events' = Append(events, Event("key", k, "reemit", NoDetails))
                  /\ kbd_ignore' = SetKey(ig, k, now + ignore_window)
                  /\ UNCHANGED macro_queue
             ELSE IF TitleMissing(cached_active_title)
             THEN /\ events' = Append(events, Event("key", k, "no title", NoDetails))
                  /\ kbd_ignore' = ig
                  /\ UNCHANGED macro_queue
             ELSE IF hit = 0
             THEN /\ events' = Append(events, Event("key", k, "reemit", NoDetails))
                  /\ kbd_ignore' = SetKey(ig, k, now + ignore_window)
                  /\ UNCHANGED macro_queue
             ELSE IF IsMacro(bucket[hit])
             THEN /\ events' = Append(events, Event("key", k, "macro", bucket[hit]))
                  /\ kbd_ignore' = SetKey(ig, k, now + ignore_window)
                  /\ macro_queue' = Dispatched(macro_queue, bucket[hit])
             ELSE /\ events' = Append(events, Event("key", k, "send", bucket[hit]))
                  /\ kbd_ignore' = SetKey(ig, TargetName(bucket[hit].target_key),
                                          now + ignore_window)
                  /\ UNCHANGED macro_queue

\* keyboard mappings whose target is a key combination, and whose target is
\* itself a mapped source key
CallbackForms ==
  { Form("Q", "", "y", "ctrl", PressOk, <<"A">>),
    Form("x", "", "q", "", PressOk, <<"A">>) }

CallbackTitles == { <<"A", " ">>, <<"c">> }

\* an empty mappings.ini, and one with a keyboard mapping of q
CallbackConfigs ==
  { <<>>, << Section(Id("Mapping", 1), "keyboard", <<"a">>, TRUE) >> }

\* the clock of the key events runs to MaxKeyTime, in steps drawn from KeyGaps
MaxKeyTime == 31

KeyGaps == { 15 }

\* the macro editor with a keyboard trigger: q in windows titled a
CallbackMacroForms == { MacroForm("m", "keyboard", "Q", "", 2, <<"A">>) }

CallbackNext ==
  \/ \E cfg \in CallbackConfigs : Construct(cfg, <<>>, {}, {})
  \/ \E f \in CallbackForms : AddMapping(f, {})
  \/ \E f \in CallbackMacroForms : AddMacro(f, {})
  \/ \E t \in CallbackTitles : ActiveWindowChanged(t, {})
  \/ \E g \in KeyGaps : Tick(g, MaxKeyTime)
  \/ \E k \in Keys, down \in BOOLEAN, held \in BOOLEAN : KeyEvent(k, down, held)

\* The hook thread: key events against the loaded and edited table, as time
\* passes and the active window changes.
SpecCallback == InitHooks /\ [][CallbackNext]_vars

\* ----------------------------------------------- properties of the callback
\* k names an entry of the guard that has not expired
Guarded(k) == k \in DOMAIN kbd_ignore /\ ~(kbd_ignore[k] < now)

\* the mappings of source key k whose window matches the active title
MappedHere(k) ==
  LET ds == FlattenDetails(mappings)
  IN { i \in 1..Len(ds) : /\ Indexed(ds[i]) /\ ds[i].source_key = k
                          /\ WindowMatches(ds[i].window_title, cached_active_title) }

\* C9: a key-down event whose name has an unexpired entry in the guard leads
\* to no mapping action, no macro enqueue and no re-emit; a key-down event
\* of a key with a mapping for the active window, whose name has no entry or
\* an expired one (and with no modifier held) triggers the first such
\* mapping, and a macro trigger enqueues its macro once more.
C9_GuardThenTrigger ==
  [][\A k \in Keys, held \in BOOLEAN :
       KeyEvent(k, TRUE, held) =>
         LET e == events'[Len(events')]
             ds == FlattenDetails(mappings)
         IN /\ Guarded(k) => /\ e.out = "guarded"
                             /\ macro_queue' = macro_queue
                             /\ \A n \in DOMAIN kbd_ignore' :
                                  n \in DOMAIN kbd_ignore /\ kbd_ignore'[n] = kbd_ignore[n]
            /\ (~Guarded(k) /\ ~held /\ cached_active_title # <<>> /\ MappedHere(k) # {})
               => LET first == CHOOSE i \in MappedHere(k) : \A j \in MappedHere(k) : i <= j
                  IN /\ e.out \in {"macro", "send"}
                     /\ e.act = ds[first]
                     /\ (IsMacro(ds[first]) /\ ds[first].macro_id \in DOMAIN macros_by_id)
                        => macro_queue' = Append(macro_queue, macros_by_id[ds[first].macro_id])
    ]_vars

\* a macro-trigger key pressed three times: the second press inside the guard
\* window is ignored, the third, after the window, enqueues the macro again
C9_Witness ==
  /\ Len(events) = 3
  /\ events[1].out = "macro" /\ events[2].out = "guarded" /\ events[3].out = "macro"
  /\ events[1].name = events[3].name /\ events[2].name = events[1].name
  /\ events[2].t <= events[1].t + ignore_window
  /\ events[3].t > events[1].t + ignore_window
  /\ Len(macro_queue) = 2

\* ------------------------------------------------------- the macro worker
\* the sleep loop's step, the delay of an action that is neither text nor key,
\* the pause after 'enter', the post-action delay and its step (units of 10 ms)
step == 5

unknown_delay == 5

after_enter_delay == 12

post_delay == 5

tiny_step == 2

MaxQueue == 2

MaxRunTime == 45

\* macros.ini with the macro [sleep:0.2, text:HELLO] and a macro of key
\* actions ("key:tab x 3", "key:enter") and a line with no known prefix
WorkerMacroFiles ==
  { << Macro(Id("Macro", 1), "m", "none", "", "", 0, <<>>),
       [Macro(Id("Macro", 2), "k", "none", "", "", 0, <<>>)
          EXCEPT !.actions = << Act("key", "tab x 3"), Act("key", "enter"),
                                Act("beep", "") >>] >> }

\* the test without _stop_event.is_set()
Interrupted_AbortOnly == abort_flag

\* _stop_event.is_set() or _current_abort.is_set()
Interrupted == stop_flag \/ abort_flag

\* the worker is in the sleep loop of a 'sleep:' action
InSleepStep ==
  \/ worker.pc = "sleep_loop"
  \/ worker.pc = "sleeping" /\ worker.then = "sleep_loop"

\* time.sleep(d), then on to pc
Sleep(w, d, pc) == [w EXCEPT !.pc = "sleeping", !.rem = d, !.then = pc]

\* _run_selected_macro: the selected macro is put on the worker's queue
RunSelectedMacro(sel) ==
  /\ phase = "running"
  /\ GuiIdle
  /\ sel \in 1..Len(macros)
  /\ Len(macro_queue) < MaxQueue
  /\ macro_queue' = Append(macro_queue, macros[sel])
  /\ UNCHANGED <<phase, storeVars, last, hookVars, concVars, now, clickVars, macro_running,
                 last_injected, abort_flag, events, kbd_ignore, stop_flag, worker, typed>>

\* abort_current_macro(); worker.in_sleep notes a call made during a sleep
\* step, worker.aborted a call made while the worker has a macro in hand
\* and worker.during a call made while the macro-running flag is set
AbortCurrentMacro ==
  /\ phase = "running"
  /\ abort_flag' = TRUE
  /\ worker' = [worker EXCEPT !.in_sleep = @ \/ InSleepStep,
                              !.aborted = @ \/ worker.pc \notin {"loop", "get", "done"},
                              !.during = @ \/ macro_running]
  /\ UNCHANGED <<phase, storeVars, last, hookVars, concVars, now, clickVars, macro_running,
                 last_injected, events, kbd_ignore, macro_queue, stop_flag, typed>>

\* stop(): the stop event is set and the queue drained
StopThread ==
  /\ phase = "running"
  /\ ~stop_flag
  /\ stop_flag' = TRUE
  /\ macro_queue' = <<>>
  /\ UNCHANGED <<phase, storeVars, last, hookVars, concVars, now, clickVars, macro_running,
                 last_injected, abort_flag, events, kbd_ignore, worker, typed>>

\* run: while not self._stop_event.is_set()
WorkerLoop ==
  /\ phase = "running"
  /\ worker.pc = "loop"
  /\ worker' = [worker EXCEPT !.pc = IF stop_flag THEN "done" ELSE "get"]
  /\ UNCHANGED <<phase, storeVars, last, hookVars, concVars, now, clickVars, macro_running,
                 last_injected, abort_flag, events, kbd_ignore, macro_queue, stop_flag, typed>>

\* run, taking the macro that was enqueued last
WorkerGet_Lifo ==
  /\ worker.pc = "get"
  /\ IF macro_queue = <<>>
     THEN /\ worker' = [worker EXCEPT !.pc = "loop"]
          /\ UNCHANGED <<macro_queue, typed>>
     ELSE /\ worker' = [worker EXCEPT !.pc = "mark",
                                      !.acts = macro_queue[Len(macro_queue)].actions]
          /\ macro_queue' = SubSeq(macro_queue, 1, Len(macro_queue) - 1)
          /\ typed' = <<>>
  /\ UNCHANGED <<phase, storeVars, last, hookVars, concVars, now, clickVars, macro_running,
                 last_injected, abort_flag, events, kbd_ignore, stop_flag>>

\* run: macro = self._queue.get(timeout=0.5); an empty queue leads back to
\* the head of the loop.  worker.stale notes that an abort requested earlier
\* is still set when the macro is taken.
WorkerGet ==
  /\ worker.pc = "get"
  /\ IF macro_queue = <<>>
     THEN /\ worker' = [worker EXCEPT !.pc = "loop"]
          /\ UNCHANGED <<macro_queue, typed>>
     ELSE /\ worker' = [worker EXCEPT !.pc = "mark", !.acts = Head(macro_queue).actions,
                                      !.stale = abort_flag]
          /\ macro_queue' = Tail(macro_queue)
          /\ typed' = <<>>
  /\ UNCHANGED <<phase, storeVars, last, hookVars, concVars, now, clickVars, macro_running,
                 last_injected, abort_flag, events, kbd_ignore, stop_flag>>

\* run: self.app._macro_running = True
WorkerMark ==
  /\ worker.pc = "mark"
  /\ macro_running' = TRUE
  /\ worker' = [worker EXCEPT !.pc = "clear"]
  /\ UNCHANGED <<phase, storeVars, last, hookVars, concVars, now, clickVars,
                 last_injected, abort_flag, events, kbd_ignore, macro_queue, stop_flag, typed>>

\* run, without self._current_abort.clear()
WorkerClear_Keep ==
  /\ worker.pc = "clear"
  /\ worker' = [worker EXCEPT !.pc = "check", !.i = 1]
  /\ UNCHANGED <<phase, storeVars, last, hookVars, concVars, now, clickVars, macro_running,
                 last_injected, abort_flag, events, kbd_ignore, macro_queue, stop_flag, typed>>

\* run: self._current_abort.clear()
WorkerClear ==
  /\ worker.pc = "clear"
  /\ abort_flag' = FALSE
  /\ worker' = [worker EXCEPT !.pc = "check", !.i = 1]
  /\ UNCHANGED <<phase, storeVars, last, hookVars, concVars, now, clickVars, macro_running,
                 last_injected, events, kbd_ignore, macro_queue, stop_flag, typed>>

\* run: the head of `for act in actions`, and the first `if` of its body
WorkerCheck ==
  /\ worker.pc = "check"
  /\ worker' =
       IF worker.i > Len(worker.acts) \/ Interrupted
       THEN [worker EXCEPT !.pc = "finish", !.waited = 0]
       ELSE IF worker.acts[worker.i].kind = "sleep"
       THEN [worker EXCEPT !.pc = "sleep_loop", !.waited = 0]
       ELSE [worker EXCEPT !.pc = "act"]
  /\ UNCHANGED <<phase, storeVars, last, hookVars, concVars, now, clickVars, macro_running,
                 last_injected, abort_flag, events, kbd_ignore, macro_queue, stop_flag, typed>>

\* the seconds of a 'sleep:' action whose text float() refuses (ValueError)
NotANumber == 0 - 1

\* run, with the ValueError of float() ending the loop over the actions
WorkerSleepLoop_Fatal ==
  /\ worker.pc = "sleep_loop"
  /\ LET sec == worker.acts[worker.i].arg
         to_sleep == IF step < sec - worker.waited THEN step ELSE sec - worker.waited
     IN worker' =
          IF sec = NotANumber
          THEN [worker EXCEPT !.pc = "finish", !.waited = 0]
          ELSE IF ~(worker.waited < sec) \/ Interrupted
          THEN [worker EXCEPT !.pc = "act"]
          ELSE [Sleep(worker, to_sleep, "sleep_loop") EXCEPT !.waited = @ + to_sleep]
  /\ UNCHANGED <<phase, storeVars, last, hookVars, concVars, now, clickVars, macro_running,
                 last_injected, abort_flag, events, kbd_ignore, macro_queue, stop_flag, typed>>

\* run: the loop of a 'sleep:' action, while waited < sec.  A ValueError of
\* float() is caught by the `except Exception` around the step, which goes on
\* with the next action.
WorkerSleepLoop ==
  /\ worker.pc = "sleep_loop"
  /\ LET sec == worker.acts[worker.i].arg
         to_sleep == IF step < sec - worker.waited THEN step ELSE sec - worker.waited
     IN worker' =
          IF sec = NotANumber
          THEN [worker EXCEPT !.pc = "check", !.i = @ + 1, !.waited = 0]
          ELSE IF ~(worker.waited < sec) \/ Interrupted
          THEN [worker EXCEPT !.pc = "act"]
          ELSE [Sleep(worker, to_sleep, "sleep_loop") EXCEPT !.waited = @ + to_sleep]
  /\ UNCHANGED <<phase, storeVars, last, hookVars, concVars, now, clickVars, macro_running,
                 last_injected, abort_flag, events, kbd_ignore, macro_queue, stop_flag, typed>>

\* time.sleep(d) in the worker returns: d units of time have passed.  A call
\* of abort_current_macro during the sleep is a call before this step;
\* worker.after_abort adds up the sleeps that return after an abort in a
\* sleep step.
WorkerSleeping ==
  /\ worker.pc = "sleeping"
  /\ now + worker.rem <= MaxRunTime
  /\ now' = now + worker.rem
  /\ worker' = [worker EXCEPT !.pc = worker.then, !.rem = 0,
                              !.after_abort = IF worker.in_sleep THEN @ + worker.rem ELSE @]
  /\ UNCHANGED <<phase, storeVars, last, hookVars, concVars, clickVars, macro_running,
                 last_injected, abort_flag, events, kbd_ignore, macro_queue, stop_flag, typed>>

\* the modifiers of a key action: the parts of its name before the last '+'
Modifiers(arg) ==
  CASE arg = "ctrl + n" -> << "ctrl" >>
    [] OTHER -> << >>

\* run: the chain `if text: ... elif key: ... else: time.sleep(0.05)`, which
\* follows the sleep loop as well.  A key action splits its name at '+' only
\* and presses and releases the one resulting key once (a "key" entry of
\* typed); with modifiers before the last '+', this step presses them (a
\* "mods" entry) and WorkerCombo does the rest.  typed entries note the step
\* they belong to and whether an abort in a sleep step came before them.
WorkerAct ==
  /\ worker.pc = "act"
  /\ LET act == worker.acts[worker.i]
         w == [worker EXCEPT !.waited = 0]
     IN IF act.kind = "text"
        THEN /\ last_injected' = now
             /\ typed' = Append(typed, [kind |-> "text", arg |-> act.arg, i |-> worker.i,
                                        after |-> worker.in_sleep])
             /\ worker' = [w EXCEPT !.pc = "post"]
        ELSE IF act.kind = "key" /\ Modifiers(act.arg) # <<>>
        THEN /\ last_injected' = now
             /\ typed' = Append(typed, [kind |-> "mods", arg |-> act.arg, i |-> worker.i,
                                        after |-> worker.in_sleep])
             /\ worker' = [w EXCEPT !.pc = "combo"]
        ELSE IF act.kind = "key"
        THEN /\ last_injected' = now
             /\ typed' = Append(typed, [kind |-> "key", arg |-> act.arg, i |-> worker.i,
                                        after |-> worker.in_sleep])
             /\ worker' = IF act.arg = "enter" THEN Sleep(w, after_enter_delay, "post")
                          ELSE [w EXCEPT !.pc = "post"]
        ELSE /\ worker' = Sleep(w, unknown_delay, "post")
             /\ UNCHANGED <<last_injected, typed>>
  /\ UNCHANGED <<phase, storeVars, last, hookVars, concVars, now, clickVars, macro_running,
                 abort_flag, events, kbd_ignore, macro_queue, stop_flag>>

\* run: a text or single-key action for which every call of the controller
\* raises; the exceptions are caught where they are raised and the step goes
\* on as after an injection (a "raised" entry of typed)
WorkerActRaises ==
  /\ worker.pc = "act"
  /\ LET act == worker.acts[worker.i]
         w == [worker EXCEPT !.waited = 0]
     IN /\ act.kind \in {"text", "key"}
        /\ Modifiers(act.arg) = <<>>
        /\ last_injected' = now
        /\ typed' = Append(typed, [kind |-> "raised", arg |-> act.arg, i |-> worker.i,
                                   after |-> worker.in_sleep])
        /\ worker' = IF act.kind = "key" /\ act.arg = "enter"
                     THEN Sleep(w, after_enter_delay, "post")
                     ELSE [w EXCEPT !.pc = "post"]
  /\ UNCHANGED <<phase, storeVars, last, hookVars, concVars, now, clickVars, macro_running,
                 abort_flag, events, kbd_ignore, macro_queue, stop_flag>>

\* run: with the modifiers of a key action pressed, the main key is pressed
\* and released and the modifiers are released in reverse order
WorkerCombo ==
  /\ worker.pc = "combo"
  /\ last_injected' = now
  /\ typed' = Append(typed, [kind |-> "key", arg |-> worker.acts[worker.i].arg,
                             i |-> worker.i, after |-> worker.in_sleep])
  /\ worker' = [worker EXCEPT !.pc = "post"]
  /\ UNCHANGED <<phase, storeVars, last, hookVars, concVars, now, clickVars, macro_running,
                 abort_flag, events, kbd_ignore, macro_queue, stop_flag>>

\* run: the post-action delay, while waited < 0.05
WorkerPost ==
  /\ worker.pc = "post"
  /\ worker' =
       IF ~(worker.waited < post_delay) \/ Interrupted
       THEN [worker EXCEPT !.pc = "check", !.i = @ + 1, !.waited = 0]
       ELSE [Sleep(worker, tiny_step, "post") EXCEPT !.waited = @ + tiny_step]
  /\ UNCHANGED <<phase, storeVars, last, hookVars, concVars, now, clickVars, macro_running,
                 last_injected, abort_flag, events, kbd_ignore, macro_queue, stop_flag, typed>>

\* run, without self.app._macro_running = False
WorkerFinish_KeepFlag ==
  /\ worker.pc = "finish"
  /\ worker' = Idle
  /\ UNCHANGED <<phase, storeVars, last, hookVars, concVars, now, clickVars, macro_running,
                 last_injected, abort_flag, events, kbd_ignore, macro_queue, stop_flag, typed>>

\* run: self.app._macro_running = False, and back to the head of the loop;
\* the locals of the finished macro are dead
WorkerFinish ==
  /\ worker.pc = "finish"
  /\ macro_running' = FALSE
  /\ worker' = Idle
  /\ UNCHANGED <<phase, storeVars, last, hookVars, concVars, now, clickVars,
                 last_injected, abort_flag, events, kbd_ignore, macro_queue, stop_flag, typed>>

WorkerNext ==
  \/ \E mcfg \in WorkerMacroFiles : Construct(<<>>, mcfg, {}, {})
  \/ \E sel \in 1..2 : RunSelectedMacro(sel)
  \/ AbortCurrentMacro
  \/ StopThread
  \/ WorkerLoop
  \/ WorkerGet
  \/ WorkerMark
  \/ WorkerClear
  \/ WorkerCheck
  \/ WorkerSleepLoop
  \/ WorkerSleeping
  \/ WorkerAct
  \/ WorkerPost
  \/ WorkerFinish

\* The macro thread: macros queued from the macro list, run, aborted, stopped.
SpecMacro == InitStore /\ [][WorkerNext]_vars

\* -------------------------------------------------- properties of the worker
\* C10 as stated, the part about what the worker does after the call: when
\* abort_current_macro() is called while the worker is inside a sleep step,
\* the worker sleeps at most one sub-increment (50 ms) more, and no later step
\* of the macro is executed (nothing is typed after the call).
C10_AbortEndsSleep ==
  worker.in_sleep =>
    /\ worker.after_abort <= step
    /\ \A j \in 1..Len(typed) : ~typed[j].after

\* what `key:<combo> x N` stands for, for the key actions of the macro file
Shorthand(arg) ==
  IF arg = "tab x 3" THEN [combo |-> "tab", n |-> 3] ELSE [combo |-> arg, n |-> 1]

\* the press/release cycles of key k that step i of the running macro made
Cycles(i, k) ==
  { j \in 1..Len(typed) : typed[j].i = i /\ typed[j].kind = "key" /\ typed[j].arg = k }

\* C11: once the worker is past a key action with a repeat suffix,
\* `key:<combo> x N`, that step has made exactly N press/release cycles of the
\* combo (3 presses and 3 releases of tab for `key:tab x 3`).
C11_RepeatExpands ==
  \A i \in 1..Len(worker.acts) :
    (worker.acts[i].kind = "key" /\ i < worker.i)
    => Cardinality(Cycles(i, Shorthand(worker.acts[i].arg).combo))
         = Shorthand(worker.acts[i].arg).n

\* ------------------------------------------------------------ persistence
\* save_mappings_to_config, the body of the loop over all_mappings: the section
\* written for a details dict, as configparser reads it back (values
\* stripped, str(press_count) parsed by getint)
SaveSection(id, d) ==
  [id |-> id, type |-> IF HasMouseButton(d) THEN "mouse" ELSE "keyboard",
   window_title |-> Strip(d.window_title), source_key |-> d.source_key,
   target_key |-> IF HasMouseButton(d) THEN d.keyboard_button ELSE d.target_key,
   mouse_button |-> d.mouse_button, press_ok |-> TRUE, press_count |-> d.press_count]

\* save_mappings_to_config: all_mappings is the buckets merged with
\* dict.update (an id keeps its first place and takes its last details); the
\* loop raises KeyError at details['keyboard_button'] / details['target_key']
\* for a dict that has neither, before the file is opened for writing
SaveMappingsToConfig(m) ==
  LET ids == FlattenIds(m)
      ds == FlattenDetails(m)
      firsts == { i \in 1..Len(ids) : \A j \in 1..(i - 1) : ids[j] # ids[i] }
      lastOf(i) == CHOOSE j \in 1..Len(ids) :
                     ids[j] = ids[i] /\ \A k \in 1..Len(ids) : ids[k] = ids[i] => k <= j
      RECURSIVE Sections(_)
      Sections(i) ==
        IF i > Len(ids) THEN <<>>
        ELSE (IF i \in firsts THEN << SaveSection(ids[i], ds[lastOf(i)]) >> ELSE <<>>)
             \o Sections(i + 1)
  IN [raised |-> \E i \in 1..Len(ds) : IsMacro(ds[i]),
      file |-> IF \E i \in 1..Len(ds) : IsMacro(ds[i]) THEN <<>> ELSE Sections(1)]

\* ----------------------------------------------- properties of persistence
\* table m holds mapping id with details d in the bucket of window w
HoldsMapping(m, w, id, d) ==
  \E b \in 1..Len(m) :
    /\ m[b].win = w
    /\ \E e \in 1..Len(m[b].entries) : m[b].entries[e].id = id /\ m[b].entries[e].d = d

\* C12: for every mapping held in the store (keyboard, mouse or macro-trigger
\* mapping), saving the store and loading the saved file into a fresh store
\* yields the same mapping, field for field, in the same window bucket.
C12_RoundTrip ==
  LET saved == SaveMappingsToConfig(mappings)
      loaded == LoadSections(<<>>, saved.file)
  IN \A b \in 1..Len(mappings) : \A e \in 1..Len(mappings[b].entries) :
       /\ ~saved.raised
       /\ HoldsMapping(loaded, mappings[b].win, mappings[b].entries[e].id,
                       mappings[b].entries[e].d)

\* ------------------------------------------------ properties of hook scoping
\* C13: whenever low-level suppression is enabled and a refresh has
\* completed, a hook is installed for a source key if and only if some
\* mapping with that source key has a window contained in the cached active
\* title (so none is installed when no mapping matches or the title is empty).
C13_HookScoping ==
  (phase = "running" /\ HooksOn)
  => \A k \in Keys : k \in keyboard_hooks <=> MappedHere(k) # {}

\* --------------------------------------------- properties of the toggle
\* C14: when the installation of a hook fails while suppression is being
\* enabled, the enabled flag is reverted to false, so that on_press is the
\* dispatch path again, and a warning is shown to the user.
C14_EnableFailureReverts ==
  [][\A fails \in KeySets :
       (SuppressionToggled(TRUE, fails) /\ refresh_log'.failed)
       => (~kbd_enabled' /\ last'.res = "warned")]_vars

\* C15: after the toggle is switched off the enabled flag is false and the
\* hook table is empty, whichever unhook calls failed.
C15_DisableSucceeds ==
  [][\A fails \in KeySets :
       SuppressionToggled(FALSE, fails) => (~kbd_enabled' /\ keyboard_hooks' = {})]_vars

\* suppression was switched off while a mapping of q matched the active title
C15_Witness ==
  /\ last.op = "toggle" /\ last.res = "disabled"
  /\ ~kbd_enabled /\ keyboard_hooks = {}
  /\ MappedHere("q") # {}

\* ------------------------------------------- properties of the worker's order
\* C16: the worker takes macros in the order they were enqueued and one at a
\* time (a macro leaves the queue from the front, into a worker that holds
\* none, and a new macro joins at the back), and the steps of the macro in
\* hand are executed in list order, each step being the action at its place.
C16_FifoInOrder ==
  /\ [][/\ (Len(macro_queue') < Len(macro_queue) /\ ~stop_flag')
           => /\ macro_queue' = Tail(macro_queue)
              /\ worker.acts = <<>>
              /\ worker'.acts = Head(macro_queue).actions
        /\ Len(macro_queue') > Len(macro_queue)
           => SubSeq(macro_queue', 1, Len(macro_queue)) = macro_queue
        /\ worker'.acts # worker.acts => (worker.acts = <<>> \/ worker'.acts = <<>>)
        /\ worker'.i # worker.i => (worker'.i = worker.i + 1 \/ worker'.i = 0)
       ]_vars
  /\ [](worker.acts # <<>>
        => \A j \in 1..Len(typed) :
             /\ typed[j].i <= worker.i
             /\ typed[j].i \in 1..Len(worker.acts)
             /\ typed[j].kind = worker.acts[typed[j].i].kind
             /\ typed[j].arg = worker.acts[typed[j].i].arg
             /\ \A k \in 1..Len(typed) : j < k => typed[j].i < typed[k].i)

\* the worker is at the second step of a macro, its first step done, while a
\* different macro waits in the queue
C16_Witness ==
  /\ worker.pc = "act" /\ worker.i = 2 /\ Len(typed) = 1
  /\ Len(macro_queue) >= 1 /\ macro_queue[1].actions # worker.acts

\* ----------------------------------------------- properties of the abort
\* step i of the macro in hand has been executed: a text or key action has
\* its entry in typed, another action has been passed
StepDone(i) ==
  /\ i < worker.i
  /\ worker.acts[i].kind \in {"text", "key"} => \E j \in 1..Len(typed) : typed[j].i = i

\* C17: abort_current_macro() stops neither the worker nor the queue, and a
\* macro ends with one of its steps not executed only if an abort was
\* requested after the worker took it from the queue (or stop() was called):
\* an abort requested before that, during an earlier macro or while the
\* worker was idle, makes it skip no step.
C17_AbortOnlyCurrent ==
  /\ [][(abort_flag' /\ ~abort_flag)
        => /\ stop_flag' = stop_flag /\ macro_queue' = macro_queue
           /\ worker'.pc = worker.pc]_vars
  /\ []((worker.pc = "finish" /\ ~worker.aborted /\ ~stop_flag)
        => \A i \in 1..Len(worker.acts) : StepDone(i))

\* a macro taken while an earlier abort request was still set has run all
\* of its steps
C17_Witness ==
  /\ worker.pc = "finish" /\ worker.stale /\ ~worker.aborted /\ ~stop_flag
  /\ Len(worker.acts) >= 2 /\ \A i \in 1..Len(worker.acts) : StepDone(i)
  /\ Len(typed) >= 1

\* ------------------------------------------------ the high-level key listener
\* the scan of on_press without its return at the first match: the last
\* matching mapping is the one it ends with
ScanPress_Last(m, title, k) ==
  LET ds == FlattenDetails(m)
      hits == { i \in 1..Len(ds) : /\ NormKey(ds[i].source_key) = k
                                   /\ WindowMatches(ds[i].window_title, title) }
  IN IF hits = {} THEN NoDetails
     ELSE ds[CHOOSE i \in hits : \A j \in hits : j <= i]

\* on_press: the scan of the table for the first mapping of pressed key k in a
\* bucket whose window is contained in the title (NoDetails if there is none)
RECURSIVE ScanPress(_, _, _)
ScanPress(m, title, k) ==
  IF m = <<>> THEN NoDetails
  ELSE LET es == m[1].entries
           hits == IF m[1].win # <<>> /\ Contains(Strip(Lower(m[1].win)), title)
                   THEN { i \in 1..Len(es) : NormKey(es[i].d.source_key) = k } ELSE {}
       IN IF hits = {} THEN ScanPress(Tail(m), title, k)
          ELSE es[CHOOSE i \in hits : \A j \in hits : i <= j].d

\* on_press(key) on the keyboard listener thread, with the slot of the signal
\* it emits; k is the lower-cased name of the key
OnPress(k) ==
  /\ phase = "running"
  /\ CanLock
  /\ Len(events) < MaxEvents
  /\ UNCHANGED <<phase, storeVars, last, hookVars, concVars, now, clickVars, macro_running,
                 last_injected, kbd_ignore, stop_flag, worker, typed>>
  /\ IF Busy
     THEN IF IsEcho
          THEN /\ events' = Append(events, Event("press", k, "echo", NoDetails))
               /\ UNCHANGED <<abort_flag, macro_queue>>
          ELSE /\ events' = Append(events, Event("press", k, "abort", NoDetails))
               /\ abort_flag' = TRUE
               /\ UNCHANGED macro_queue
     ELSE IF HooksOn
     THEN /\ events' = Append(events, Event("press", k, "hooked", NoDetails))
          /\ UNCHANGED <<abort_flag, macro_queue>>
     ELSE IF cached_active_title = <<>>
     THEN /\ events' = Append(events, Event("press", k, "no title", NoDetails))
          /\ UNCHANGED <<abort_flag, macro_queue>>
     ELSE LET d == ScanPress(mappings, cached_active_title, k)
          IN IF d = NoDetails
             THEN /\ events' = Append(events, Event("press", k, "none", NoDetails))
                  /\ UNCHANGED <<abort_flag, macro_queue>>
             ELSE /\ events' = Append(events, Event("press", k, "emit", d))
                  /\ macro_queue' = Dispatched(macro_queue, d)
                  /\ UNCHANGED abort_flag

\* macros.ini with a macro that types a mapped source key and then sleeps as
\* long as the grace window: [text:q, sleep:0.25]
InputMacroFiles ==
  { << [Macro(Id("Macro", 1), "m", "none", "", "", 0, <<>>)
          EXCEPT !.actions = << Act("text", "q"), Act("sleep", 25) >>] >> }

\* a title that contains the windows of the keyboard and of the mouse mapping
InputTitles == { <<"a", "b">> }

\* the number of input events that are followed while the worker runs
MaxInputs == 2

InputNext ==
  \/ \E cfg \in { c \in ConfigFiles : Len(c) = 2 /\ c[1].type = "keyboard" },
        mcfg \in InputMacroFiles : Construct(cfg, mcfg, {}, {})
  \/ \E t \in InputTitles : ActiveWindowChanged(t, {})
  \/ \E sel \in 1..1 : RunSelectedMacro(sel)
  \/ WorkerLoop
  \/ WorkerGet
  \/ WorkerMark
  \/ WorkerClear
  \/ WorkerCheck
  \/ WorkerSleepLoop
  \/ WorkerSleeping
  \/ WorkerAct
  \/ WorkerPost
  \/ WorkerFinish
  \/ \E k \in {"q"} : Len(events) < MaxInputs /\ OnPress(k)
  \/ \E b \in {"left"}, pressed \in BOOLEAN : Len(events) < MaxInputs /\ OnClick(b, pressed)

\* The listener threads while the worker runs a macro from the macro list.
SpecInput == InitStore /\ [][InputNext]_vars

\* C18: while a macro is running, a key press seen by on_press within the grace
\* window after the stamp of the last injected event is taken for the macro's
\* own echo and abort_current_macro is not called; a key press seen later than
\* that calls abort_current_macro.
C18_GraceWindow ==
  [][ \A k \in Keys :
        (OnPress(k) /\ macro_running) =>
          IF now - last_injected <= grace
          THEN abort_flag' = abort_flag /\ events'[Len(events')].out = "echo"
          ELSE abort_flag' /\ events'[Len(events')].out = "abort" ]_vars

\* C18 happens: during a run the macro stamped an injected event, a first key
\* press fell within the grace window of the stamp and was ignored, a second
\* one fell outside of it and requested the abort.
C18_Witness ==
  /\ Len(events) = 2 /\ last_injected >= 1
  /\ events[1].kind = "press" /\ events[1].out = "echo"
  /\ events[1].t >= last_injected /\ events[1].t - last_injected <= grace
  /\ events[2].kind = "press" /\ events[2].out = "abort"
  /\ events[2].t - last_injected > grace
  /\ abort_flag

\* C19: while the macro-running flag is set, on_press and on_click dispatch no
\* mapping action: no target combo is emitted and no macro is enqueued by them.
C19_NoDispatchWhileRunning ==
  [][ (macro_running /\ events' # events) =>
        /\ events'[Len(events')].out # "emit"
        /\ macro_queue' = macro_queue ]_vars

\* C19 happens: with the flag set, the second click of a button whose mapping
\* for the active title asks for two clicks was made within the click interval,
\* and the mapping was not dispatched.
C19_Witness ==
  /\ Len(events) = 2 /\ macro_running
  /\ events[1].kind = "click" /\ events[1].out = "none"
  /\ events[2].kind = "click" /\ events[2].out \in {"echo", "abort"}
  /\ events[2].t - events[1].t <= click_interval
  /\ events[2].name = events[1].name

\* ------------------------------------------- the hooks while a macro runs
\* macros.ini with a macro that types a mapped source key and then presses a
\* key with a modifier: [text:q, key:ctrl + n]
FeedbackMacroFiles ==
  { << [Macro(Id("Macro", 1), "m", "none", "", "", 0, <<>>)
          EXCEPT !.actions = << Act("text", "q"), Act("key", "ctrl + n") >>] >> }

FeedbackNext ==
  \/ \E cfg \in { c \in ConfigFiles : Len(c) = 2 /\ c[1].type = "keyboard" },
        mcfg \in FeedbackMacroFiles : Construct(cfg, mcfg, {}, {})
  \/ \E t \in InputTitles : ActiveWindowChanged(t, {})
  \/ \E sel \in 1..1 : RunSelectedMacro(sel)
  \/ WorkerLoop
  \/ WorkerGet
  \/ WorkerMark
  \/ WorkerClear
  \/ WorkerCheck
  \/ WorkerSleeping
  \/ WorkerAct
  \/ WorkerCombo
  \/ WorkerPost
  \/ WorkerFinish
  \/ \E k \in Keys, down \in BOOLEAN, held \in BOOLEAN :
        Len(events) < MaxInputs /\ KeyEvent(k, down, held)

\* The hook thread while the worker runs a macro from the macro list.
SpecFeedback == InitHooks /\ [][FeedbackNext]_vars

\* the key-down of k that the hook thread sees is the one the macro in hand has
\* just produced: its latest output is k, stamped at this instant
Echoed(k) ==
  /\ macro_running
  /\ typed # <<>>
  /\ typed[Len(typed)].arg = k
  /\ last_injected = now

\* C20: while a macro is running, a key-down event that the macro's own output
\* produced and that reaches a hook callback injects no mapped target and
\* enqueues no macro.
C20_NoFeedback ==
  [][ \A k \in Keys, held \in BOOLEAN :
        (KeyEvent(k, TRUE, held) /\ Echoed(k)) =>
          /\ events'[Len(events')].out \notin {"send", "macro"}
          /\ macro_queue' = macro_queue ]_vars

\* --------------------------------- the key listener and the suppression toggle
\* an empty mappings.ini, and one with two keyboard mappings of q for windows
\* that can both be contained in one title
PressConfigs ==
  { <<>>,
    << Section(Id("Mapping", 1), "keyboard", <<"a">>, TRUE),
       Section(Id("Mapping", 2), "keyboard", <<"a", "b">>, TRUE) >> }

\* a title that contains the windows of both mappings, and one that contains
\* neither
PressTitles == { <<"a", "b">>, <<"c">> }

PressNext ==
  \/ \E cfg \in PressConfigs : Construct(cfg, <<>>, {}, {})
  \/ \E f \in CallbackMacroForms : AddMacro(f, {})
  \/ \E t \in PressTitles : ActiveWindowChanged(t, {})
  \/ \E checked \in BOOLEAN : SuppressionToggled(checked, {})
  \/ \E k \in Keys : Len(events) < MaxInputs /\ OnPress(k)

\* The keyboard listener thread against the loaded and edited table, with and
\* without the 'keyboard' package, as the toggle and the active window change.
SpecPress == Init /\ [][PressNext]_vars

\* the mappings a press of key k is compared with: those with a source key
\* equal to k whose bucket's window is contained in the active title
PressHits(k) ==
  LET ds == FlattenDetails(mappings)
  IN { i \in 1..Len(ds) : /\ NormKey(ds[i].source_key) = k
                          /\ WindowMatches(ds[i].window_title, cached_active_title) }

\* C21: with the 'keyboard' package available and suppression enabled, a key
\* press seen by on_press dispatches no mapping action, whatever the key, the
\* table and the active title.
C21_HighLevelIgnored ==
  [][ \A k \in Keys :
        (OnPress(k) /\ kbd_available /\ kbd_enabled) =>
          /\ events'[Len(events')].out # "emit"
          /\ macro_queue' = macro_queue ]_vars

\* C21 happens: suppression is enabled, no macro runs, a key with a mapping for
\* the active title was pressed, and on_press left it to the hooks.
C21_Witness ==
  /\ kbd_available /\ kbd_enabled /\ ~macro_running
  /\ events # <<>>
  /\ LET e == events[Len(events)]
     IN /\ e.kind = "press" /\ e.out = "hooked"
        /\ e.title = cached_active_title
        /\ PressHits(e.name) # {}

\* C28: with no macro running and suppression disabled, a key press seen by
\* on_press dispatches at most one action; it dispatches one exactly when the
\* active title is non-empty and a bucket whose window is contained in the
\* title holds a mapping of the pressed key; the first such mapping in the
\* table's iteration order is the one dispatched; a macro trigger enqueues its
\* macro once, a keyboard mapping hands over its target and enqueues nothing.
C28_PressDispatch ==
  [][ \A k \in Keys :
        (OnPress(k) /\ ~macro_running /\ ~(kbd_available /\ kbd_enabled)) =>
          LET e == events'[Len(events')]
              ds == FlattenDetails(mappings)
              hits == PressHits(k)
          IN /\ Len(events') = Len(events) + 1
             /\ Len(macro_queue') <= Len(macro_queue) + 1
             /\ IF cached_active_title # <<>> /\ hits # {}
                THEN LET d == ds[CHOOSE i \in hits : \A j \in hits : i <= j]
                     IN /\ e.out = "emit" /\ e.act = d
                        /\ macro_queue' =
                             IF d.kind = "macro_key" /\ d.macro_id \in DOMAIN macros_by_id
                             THEN Append(macro_queue, macros_by_id[d.macro_id])
                             ELSE macro_queue
                ELSE e.out # "emit" /\ macro_queue' = macro_queue ]_vars

\* C28 happens with a keyboard mapping: two buckets whose windows are both
\* contained in the title hold a mapping of q, and the press dispatched the
\* mapping of the first bucket.
C28_Witness ==
  /\ Len(events) >= 1 /\ ~macro_running /\ ~(kbd_available /\ kbd_enabled)
  /\ LET e == events[Len(events)]
     IN /\ e.kind = "press" /\ e.out = "emit"
        /\ e.title = cached_active_title
        /\ Cardinality(PressHits(e.name)) = 2
        /\ e.act.window_title = mappings[1].win
        /\ e.act.target_key # ""

\* C28 happens with a macro trigger: the trigger key was pressed twice, and
\* each press enqueued the macro once.
C28_MacroWitness ==
  /\ Len(events) = 2 /\ Len(macro_queue) = 2
  /\ \A i \in 1..2 : /\ events[i].kind = "press" /\ events[i].out = "emit"
                     /\ events[i].act.kind = "macro_key"
                     /\ macro_queue[i].id = events[i].act.macro_id

\* C22: key sequences of different sources are never interleaved: between the
\* first press and the last release of the sequence the macro worker injects
\* for a key action with modifiers, no hook callback injects a key of its own
\* (neither a mapped target nor a re-emitted source key).
C22_Serialized ==
  [][ worker.pc = "combo" =>
        ~ \E k \in Keys, held \in BOOLEAN :
            /\ KeyEvent(k, TRUE, held)
            /\ events'[Len(events')].out \in {"send", "reemit"} ]_vars

\* ------------------------------------------ macros and their trigger mappings
\* the places (bucket, entry) of the table that hold a macro trigger under id
TriggerPlaces(id) ==
  { p \in { <<b, e>> : b \in 1..Len(mappings), e \in 1..(MaxCounter + 2) } :
      /\ p[2] <= Len(mappings[p[1]].entries)
      /\ mappings[p[1]].entries[p[2]].id = id
      /\ IsMacro(mappings[p[1]].entries[p[2]].d) }

\* C23: after any sequence of add macro, save edited macro, remove macro and
\* load, a macro has a keyboard or mouse trigger if and only if the table
\* holds exactly one macro-trigger mapping under the macro's id, with the
\* macro's trigger key or button, press count and window; and every
\* macro-trigger mapping of the table belongs to a macro of the macro list.
C23_MacroMirror ==
  phase = "running" =>
    /\ \A i \in 1..Len(macros) :
         LET mc == macros[i]
         IN IF mc.trigger_type \in {"keyboard", "mouse"}
            THEN /\ Cardinality(TriggerPlaces(mc.id)) = 1
                 /\ \A p \in TriggerPlaces(mc.id) :
                      /\ mappings[p[1]].entries[p[2]].d = TriggerDetails(mc)
                      /\ mappings[p[1]].win = mc.window_title
            ELSE TriggerPlaces(mc.id) = {}
    /\ \A b \in 1..Len(mappings) : \A e \in 1..Len(mappings[b].entries) :
         IsMacro(mappings[b].entries[e].d) =>
           \E i \in 1..Len(macros) : macros[i].id = mappings[b].entries[e].id

\* ------------------------------------------- the editors while hooks are on
EditNext ==
  \/ \E cfg \in CallbackConfigs : Construct(cfg, <<>>, {}, {})
  \/ \E idx \in 1..(MaxCounter) : EditMapping(idx)
  \/ \E f \in HookForms : SaveEditedMapping(f)
  \/ \E f \in CallbackMacroForms : AddMacro(f, {})
  \/ \E idx \in 1..(MaxCounter) : RemoveMacro(idx)
  \/ \E t \in HookTitles : ActiveWindowChanged(t, {})

\* The mapping and macro editors with the 'keyboard' package imported and
\* suppression enabled.
SpecEdit == InitHooks /\ [][EditNext]_vars

\* C24: every change of the mapping table made while low-level suppression is
\* enabled ends in a hook refresh: once the handler has returned, the source
\* key index the callbacks use is the index of the table as it is now, and
\* only keys of that index hold a hook.
C24_ChangeRefreshes ==
  [][ (phase = "running" /\ kbd_available /\ kbd_enabled /\ mappings' # mappings) =>
        /\ source_index' = BuildSourceIndex(mappings')
        /\ keyboard_hooks' \subseteq DOMAIN source_index' ]_vars

\* ------------------------------------------- how the active title is followed
\* __init__, after start_listeners: the event-driven watcher is made, connected
\* and started; raises says that one of the three calls raised, in which case
\* the polling timer is started instead
StartActiveWatcher(raises) ==
  /\ phase = "running"
  /\ watcher = "new"
  /\ watcher' = IF raises THEN "none" ELSE "started"
  /\ title_timer' = raises
  /\ UNCHANGED <<phase, storeVars, last, hookVars, lock, gui_pc, gui_job, reader, eventVars>>

\* ActiveWindowEventThread.run up to its message loop: hooked says that ctypes,
\* windll.user32 and SetWinEventHook were there; otherwise run returns
WatcherRun(hooked) ==
  /\ watcher = "started"
  /\ watcher' = IF hooked THEN "hooked" ELSE "dead"
  /\ UNCHANGED <<phase, storeVars, last, hookVars, lock, gui_pc, gui_job, reader, eventVars,
                 title_timer>>

TrackNext ==
  \/ \E cfg \in ConfigFiles : Construct(cfg, <<>>, {}, {})
  \/ \E raises \in BOOLEAN : StartActiveWatcher(raises)
  \/ \E hooked \in BOOLEAN : WatcherRun(hooked)
  \/ \E t \in HookTitles : watcher = "hooked" /\ ActiveWindowChanged(t, {})
  \/ \E t \in HookTitles : title_timer /\ ActiveWindowChanged(t, {})

\* The start of the application and the two sources of title updates.
SpecTrack == Init /\ [][TrackNext]_vars

\* C26: once __init__ has set up the tracking of the active window, exactly
\* one of the two strategies is active: the event-driven watcher (started or
\* hooked) or the polling timer, never both and never neither; a watcher that
\* failed leaves the timer running.
C26_OneStrategy ==
  watcher # "new" => ((watcher \in {"started", "hooked"}) # title_timer)

\* ------------------------------------------- the write path of the active title
\* a title as the write path stores it: no capital letter, no blank at either end
IsNormalTitle(s) ==
  /\ \A i \in 1..Len(s) : s[i] \notin {"A", "B", "Q"}
  /\ s # <<>> => s[1] # " " /\ s[Len(s)] # " "

\* C25: an update of the active title stores the title trimmed and in lower
\* case; when that title equals the cached one the hook table is left as it
\* was, and when it differs while suppression is enabled the hook table is
\* recomputed once against the new title: every hook left serves a key that is
\* active for the new title, and every active key whose installation did not
\* fail is hooked.
C25_TitleWritePath ==
  [][ \A t \in HookTitles, fails \in KeySets :
        ActiveWindowChanged(t, fails) =>
          /\ IsNormalTitle(cached_active_title')
          /\ Len(cached_active_title') <= Len(t)
          /\ cached_active_title' = cached_active_title => keyboard_hooks' = keyboard_hooks
          /\ (cached_active_title' # cached_active_title /\ HooksOn) =>
               /\ keyboard_hooks' \subseteq ActiveKeys(source_index, cached_active_title')
               /\ ActiveKeys(source_index, cached_active_title') \ fails \subseteq keyboard_hooks'
               /\ refresh_log'.n = 0 ]_vars

\* C25 happens: the title "A " was stored as "a" while suppression was on and
\* the hooks were recomputed for it.
C25_Witness ==
  /\ cached_active_title = <<"a">>
  /\ HooksOn
  /\ refresh_log.n = 0
  /\ keyboard_hooks # {}
  /\ keyboard_hooks = MatchingKeys(source_index, cached_active_title)

\* ------------------------------------------------- the dispatch of a mouse press
\* mappings.ini files with two mouse mappings: of one button and one count in
\* two windows, and of two buttons with two counts
MouseDispatchConfigs ==
  { << [Section(Id("Mapping", 1), "mouse", <<"a">>, TRUE)
          EXCEPT !.press_count = 1, !.target_key = "x"],
       [Section(Id("Mapping", 2), "mouse", <<"a", "b">>, TRUE) EXCEPT !.press_count = 1] >>,
    << Section(Id("Mapping", 1), "mouse", <<"a">>, TRUE),
       [Section(Id("Mapping", 2), "mouse", <<"a", "b">>, TRUE)
          EXCEPT !.press_count = 1, !.mouse_button = "right"] >> }

MouseDispatchNext ==
  \/ \E cfg \in MouseDispatchConfigs : Construct(cfg, <<>>, {}, {})
  \/ \E t \in PressTitles : ActiveWindowChanged(t, {})
  \/ \E g \in Gaps : Tick(g, MaxTime)
  \/ \E b \in Buttons, pressed \in BOOLEAN : Len(events) < MaxInputs /\ OnClick(b, pressed)

\* The mouse listener over tables with two mouse mappings.
SpecMouseDispatch == InitStore /\ [][MouseDispatchNext]_vars

\* the mouse mappings of the table, in iteration order, that are for button b,
\* for a window whose substring is in the active title, and for count n
MouseHits(b, n) ==
  LET ds == FlattenDetails(mappings)
  IN { i \in 1..Len(ds) : /\ HasMouseButton(ds[i])
                          /\ NormKey(ds[i].mouse_button) = b
                          /\ Contains(Strip(Lower(ds[i].window_title)), cached_active_title)
                          /\ ds[i].press_count = n }

\* C27: a mouse press in a titled window selects an action exactly when some
\* mouse mapping has the pressed button, a window substring that is in the
\* active title and a press_count equal to the current count of the button;
\* then the count of the button is reset to 0 and the one action selected is
\* that of the first such mapping; a press with no such mapping selects
\* nothing and leaves the incremented count in place.
C27_MouseDispatch ==
  [][ \A b \in Buttons :
        (OnClick(b, TRUE) /\ cached_active_title # <<>>) =>
          LET n    == Counted(b)
              hits == MouseHits(b, n)
              e    == events'[Len(events')]
          IN /\ Len(events') = Len(events) + 1
             /\ Len(macro_queue') <= Len(macro_queue) + 1
             /\ hits = {} => /\ e.out = "none"
                             /\ click_counts'[b] = n
                             /\ macro_queue' = macro_queue
             /\ hits # {} => /\ e.out \in {"emit", "echo", "abort"}
                             /\ click_counts'[b] = 0
                             /\ e.out = "emit" =>
                                  e.act = FlattenDetails(mappings)[
                                            CHOOSE i \in hits : \A j \in hits : i <= j] ]_vars

\* C27 happens: a press of the left button met two mappings of its first
\* press, the first of them was selected and the count is back at 0; the
\* press before it met none and left its count in place.
C27_Witness ==
  /\ Len(events) >= 2
  /\ LET e == events[Len(events)]
         p == events[Len(events) - 1]
     IN /\ e.kind = "click" /\ e.name = "left" /\ e.out = "emit"
        /\ e.title = cached_active_title
        /\ e.act.keyboard_button = "x"
        /\ p.kind = "click" /\ p.out = "none" /\ p.title # <<>>
  /\ Cardinality(MouseHits("left", 1)) = 2
  /\ click_counts["left"] = 0

NoneContained(k) ==
  k \in DOMAIN source_index =>
    \A i \in 1..Len(source_index[k]) :
      ~Contains(Strip(Lower(source_index[k][i].window_title)), cached_active_title)

\* C30: a key-down event of a hooked key whose name has no unexpired guard
\* entry, arriving while the active title is not empty and no entry of the
\* key's bucket has a window substring that is in the title, is re-emitted
\* once as the original key under a guard entry for its name; nothing else is
\* dispatched.
C30_NoMatchReemits ==
  [][ \A k \in Keys, held \in BOOLEAN :
        (KeyEvent(k, TRUE, held) /\ ~Guarded(k) /\ cached_active_title # <<>>
           /\ NoneContained(k)) =>
          LET e == events'[Len(events')]
          IN /\ Len(events') = Len(events) + 1
             /\ e.name = k /\ e.out = "reemit" /\ e.act = NoDetails
             /\ k \in DOMAIN kbd_ignore' /\ kbd_ignore'[k] > now
             /\ DOMAIN kbd_ignore' \ {k} \subseteq DOMAIN kbd_ignore
             /\ macro_queue' = macro_queue ]_vars

\* C30 happens: the last key event, of a key whose mappings are all for other
\* windows than the active one, was re-emitted under a fresh guard.
C30_Witness ==
  /\ events # <<>>
  /\ LET e == events[Len(events)]
     IN /\ e.kind = "key" /\ e.out = "reemit"
        /\ e.t = now /\ e.title = cached_active_title /\ e.title # <<>>
        /\ e.name \in DOMAIN source_index /\ source_index[e.name] # <<>>
        /\ NoneContained(e.name)
        /\ e.name \in DOMAIN kbd_ignore /\ kbd_ignore[e.name] > now

\* C31: a key-down event of a hooked key whose name has no unexpired guard
\* entry, arriving with no modifier held while the cached active title is
\* empty, ends the callback: the key is not re-emitted, no target is sent, no
\* macro is enqueued, and the guard gets no entry (it keeps exactly its
\* unexpired entries).
C31_EmptyTitleStops ==
  [][ \A k \in Keys :
        (KeyEvent(k, TRUE, FALSE) /\ ~Guarded(k) /\ cached_active_title = <<>>) =>
          LET e == events'[Len(events')]
          IN /\ Len(events') = Len(events) + 1
             /\ e.name = k /\ e.out = "no title" /\ e.act = NoDetails
             /\ macro_queue' = macro_queue
             /\ DOMAIN kbd_ignore' = { n \in DOMAIN kbd_ignore : Guarded(n) }
             /\ \A n \in DOMAIN kbd_ignore' : kbd_ignore'[n] = kbd_ignore[n] ]_vars

\* C31 happens: a mapped, hooked key was pressed while the cached title was
\* empty; the callback stopped and left no guard entry for the key.
C31_Witness ==
  /\ events # <<>>
  /\ LET e == events[Len(events)]
     IN /\ e.kind = "key" /\ e.out = "no title" /\ e.title = <<>>
        /\ e.name \in DOMAIN source_index /\ source_index[e.name] # <<>>
        /\ e.name \in keyboard_hooks
        /\ e.t = now /\ e.name \notin DOMAIN kbd_ignore
  /\ macro_queue = <<>>

\* ------------------------------------------------ the worker's state machine
\* the steps of MacroThread.run
WorkerStep ==
  \/ WorkerLoop
  \/ WorkerGet
  \/ WorkerMark
  \/ WorkerClear
  \/ WorkerCheck
  \/ WorkerSleepLoop
  \/ WorkerSleeping
  \/ WorkerAct
  \/ WorkerPost
  \/ WorkerFinish

\* The macro thread with one macro in hand at a time, enqueued while the
\* clock has room for all of its sleeps.
LiveNext ==
  \/ \E mcfg \in WorkerMacroFiles : Construct(<<>>, mcfg, {}, {})
  \/ \E sel \in 1..2 :
       /\ worker.pc \in {"loop", "get"} /\ macro_queue = <<>> /\ now = 1
       /\ RunSelectedMacro(sel)
  \/ AbortCurrentMacro
  \/ StopThread
  \/ WorkerStep

\* The thread is scheduled: a step of run that can be taken is taken, and
\* every time.sleep returns.
SpecMacroLive == InitStore /\ [][LiveNext]_vars /\ WF_vars(WorkerStep)

\* the worker waits for a macro, or its loop has ended
WorkerIdle == worker.pc \in {"loop", "get", "done"}

\* the worker is in the loop over the actions of a macro
InSteps == worker.pc \in {"check", "sleep_loop", "sleeping", "act", "combo", "post"}

\* C32: the macro-running flag is false while the worker is idle and true
\* while it is in the steps of a macro; whenever the flag is true it is false
\* again later, whether the macro finishes, is aborted or the thread is
\* stopped; and enqueueing a macro appends it to the queue and changes neither
\* the flag nor the abort request.
C32_WorkerStateMachine ==
  /\ [](WorkerIdle => ~macro_running)
  /\ [](InSteps => macro_running)
  /\ (macro_running ~> ~macro_running)
  /\ [][ \A sel \in 1..2 :
           RunSelectedMacro(sel) =>
             /\ macro_queue' = Append(macro_queue, macros[sel])
             /\ macro_running' = macro_running
             /\ abort_flag' = abort_flag
             /\ worker' = worker ]_vars

\* C32 happens: the worker is idle again with the flag cleared, after a macro
\* that typed and was then aborted; the thread is not stopped.
C32_Witness ==
  /\ worker.pc = "loop" /\ ~macro_running /\ ~stop_flag
  /\ abort_flag /\ typed # <<>> /\ now > 1

\* no sleep of a run is cut short by the bound of the clock
ClockHasRoom == worker.pc = "sleeping" => now + worker.rem <= MaxRunTime

\* ----------------------------------------------------- the abort request
\* C33: once abort_current_macro() was called while the macro-running flag
\* was set, no check of the worker at the head of a step lets a step of the
\* macro in hand begin.
C33_AbortNotLost ==
  [][ (worker.during /\ worker.pc = "check") =>
        worker'.pc \notin {"act", "sleep_loop"} ]_vars

\* -------------------------------------------------- steps that fail
\* macros.ini with a macro of a 'sleep:' that is no number, a line with no
\* known prefix and a text, and a macro of one key
FaultyMacroFiles ==
  { << [Macro(Id("Macro", 1), "f", "none", "", "", 0, <<>>)
          EXCEPT !.actions = << Act("sleep", NotANumber), Act("beep", ""),
                                Act("text", "q") >>],
       [Macro(Id("Macro", 2), "k", "none", "", "", 0, <<>>)
          EXCEPT !.actions = << Act("key", "tab") >>] >> }

FaultyNext ==
  \/ \E mcfg \in FaultyMacroFiles : Construct(<<>>, mcfg, {}, {})
  \/ \E sel \in 1..2 : RunSelectedMacro(sel)
  \/ WorkerStep
  \/ WorkerActRaises

\* The macro thread over macros with steps that fail; no abort, no stop.
SpecFaulty == InitStore /\ [][FaultyNext]_vars

\* the steps of a macro that inject: its text and key actions, in order
InjectingSteps(acts) ==
  SelectSeq([i \in 1..Len(acts) |-> i], LAMBDA i : acts[i].kind \in {"text", "key"})

\* C34: a step that fails (a sleep whose value is no number, a line with no
\* known prefix, an injection that raises) ends neither the macro nor the
\* worker: when the loop over the actions ends it has passed every action, and
\* every text and key action was attempted once, in order; the flag is cleared
\* by the step that follows; the worker's loop never ends, and a macro that
\* waits in the queue is taken next.
C34_FailedStepSkipped ==
  /\ [](worker.pc = "finish" =>
          /\ worker.i = Len(worker.acts) + 1
          /\ [j \in 1..Len(typed) |-> typed[j].i] = InjectingSteps(worker.acts))
  /\ [][WorkerStep /\ worker.pc = "finish" => ~macro_running' /\ worker'.pc = "loop"]_vars
  /\ [](worker.pc # "done")
  /\ [][(WorkerStep /\ worker.pc = "get" /\ macro_queue # <<>>) =>
          worker'.pc = "mark" /\ worker'.acts = Head(macro_queue).actions]_vars

\* C34 happens: the macro with the failing sleep and the unknown line is at
\* its end, the injection of its text raised, and the next macro waits.
C34_Witness ==
  /\ worker.pc = "finish"
  /\ Len(worker.acts) = 3 /\ worker.acts[1].arg = NotANumber
  /\ Len(typed) = 1 /\ typed[1].kind = "raised" /\ typed[1].i = 3
  /\ macro_queue # <<>>

\* the macro after it ran too
C34_LaterWitness ==
  /\ worker.pc = "finish" /\ Len(worker.acts) = 1
  /\ typed # <<>> /\ typed[1].arg = "tab"
  /\ now > 12

\* ------------------------------------------------ a mouse press during a macro
\* C35: a mouse press while a macro is running requests an abort of the macro
\* when it comes later than the grace window after the last injected event,
\* whether or not a mouse mapping matches it, and requests none when it comes
\* inside the window.
C35_GenuineClickAborts ==
  [][ \A b \in Buttons :
        (OnClick(b, TRUE) /\ macro_running) =>
          /\ ~(now - last_injected <= grace) => abort_flag'
          /\ (now - last_injected <= grace) => abort_flag' = abort_flag ]_vars

\* ------------------------------------------------------- the ids of the store
\* mappings.ini files whose sections carry the numbers 0 and 1
IdConfigs ==
  { <<>>,
    << Section(Id("Mapping", 0), "keyboard", <<"a">>, TRUE) >>,
    << Section(Id("Mapping", 1), "mouse", <<"a", "b">>, TRUE) >> }

IdsNext ==
  \/ \E cfg \in IdConfigs, mcfg \in MacroFiles : Construct(cfg, mcfg, {}, {})
  \/ \E f \in Forms : AddMapping(f, {})
  \/ \E idx \in 1..(MaxCounter) : EditMapping(idx)
  \/ \E f \in Forms : SaveEditedMapping(f)
  \/ \E idx \in 1..(MaxCounter) : RemoveMapping(idx, {})
  \/ \E f \in MacroForms : AddMacro(f, {})
  \/ \E idx \in 1..(MaxCounter + 1) : RemoveMacro(idx)

\* Loads, adds, edits and removes over tables whose loaded ids are at and below the
\* first id the counter gives out.
SpecIds == InitStore /\ [][IdsNext]_vars

\* the ids of the mappings and macros that exist
LiveIds ==
  { FlattenIds(mappings)[i] : i \in 1..Len(FlattenIds(mappings)) }
    \cup { mapping_ids[i] : i \in 1..Len(mapping_ids) }
    \cup { macros[i].id : i \in 1..Len(macros) }

\* C36: the counter is greater than the number of every id of a mapping or a
\* macro that exists and never decreases, and an add keeps every mapping
\* and every macro that existed before it.
C36_IdsUnique ==
  /\ [](\A id \in LiveIds : id.n < mapping_counter)
  /\ [][mapping_counter' >= mapping_counter]_vars
  /\ [][ \A f \in Forms :
           AddMapping(f, {}) =>
             \A i \in 1..Len(FlattenIds(mappings)) :
               \E j \in 1..Len(FlattenIds(mappings')) :
                 /\ FlattenIds(mappings')[j] = FlattenIds(mappings)[i]
                 /\ FlattenDetails(mappings')[j] = FlattenDetails(mappings)[i] ]_vars
  /\ [][ \A f \in MacroForms :
           AddMacro(f, {}) =>
             /\ Len(macros') >= Len(macros)
             /\ \A i \in 1..Len(macros) : macros'[i] = macros[i] ]_vars

\* C36 happens: a mapping was added to a table that was loaded with an id, and
\* both exist under their own ids.
C36_Witness ==
  /\ Id("Mapping", 0) \in LiveIds
  /\ Id("Mapping", 1) \in LiveIds
  /\ Len(FlattenIds(mappings)) = 2
  /\ mapping_counter = 2

\* ------------------------------------------------------ the window buckets
\* C37: in every state the mapping table holds no window bucket without a
\* mapping.
C37_NoEmptyBucket ==
  \A i \in 1..Len(mappings) : mappings[i].entries # <<>>

\* ----------------------------------------------- the executor of a target combo
\* the parts of a target combo: .replace(' + ', '+').split('+'), each stripped
Parts(tk) ==
  CASE tk = "ctrl + y" -> << "ctrl", "y" >>
    [] tk = "ctrl + shift + tab" -> << "ctrl", "shift", "tab" >>
    [] tk = "fn + y" -> << "fn", "y" >>
    [] OTHER -> << tk >>

\* mod_map.get(m.lower()); "None" for a name that is no key of mod_map
ModMap(tok) ==
  CASE tok = "ctrl" -> "Key.ctrl"
    [] tok = "control" -> "Key.ctrl"
    [] tok = "shift" -> "Key.shift"
    [] tok = "alt" -> "Key.alt"
    [] OTHER -> "None"

\* getattr(Key, main_key, main_key)
KeyOf(tok) ==
  CASE tok = "tab" -> "Key.tab"
    [] tok = "enter" -> "Key.enter"
    [] tok = "ctrl" -> "Key.ctrl"
    [] tok = "shift" -> "Key.shift"
    [] tok = "alt" -> "Key.alt"
    [] OTHER -> tok

Reverse(s) == [i \in 1..Len(s) |-> s[Len(s) + 1 - i]]

Presses(ks) == [i \in 1..Len(ks) |-> [op |-> "press", key |-> ks[i]]]

Releases(ks) == [i \in 1..Len(ks) |-> [op |-> "release", key |-> ks[i]]]

\* _handle_mapping_action for a key target: the calls of the controller that
\* succeed.  Controller.pressed presses its keys in order and releases them
\* in reverse order when its block is left, also by an exception; fail: the
\* press of the main key raises.
ExecutorEvents(tk, fail) ==
  LET parts == Parts(tk)
      main_key == parts[Len(parts)]
      modifiers == SubSeq(parts, 1, Len(parts) - 1)
      known == SelectSeq(modifiers, LAMBDA m : ModMap(m) # "None")
      modifier_keys == [i \in 1..Len(known) |-> ModMap(known[i])]
      key_to_press == KeyOf(main_key)
  IN Presses(modifier_keys)
       \o (IF fail THEN <<>> ELSE Presses(<< key_to_press >>) \o Releases(<< key_to_press >>))
       \o Releases(Reverse(modifier_keys))

\* _handle_mapping_action(keyboard_button), the slot of mapping_action_signal
\* on the GUI thread, for a key target; typed notes the events it injects
HandleMappingAction(tk, fail) ==
  /\ phase = "running"
  /\ GuiIdle
  /\ typed' = Append(typed, [kind |-> "combo", arg |-> tk, keys |-> ExecutorEvents(tk, fail)])
  /\ UNCHANGED <<phase, storeVars, last, hookVars, concVars, now, clickVars, macro_running,
                 last_injected, abort_flag, events, kbd_ignore, macro_queue, stop_flag, worker>>

\* the target combos of the mappings: a key, a key of Key, combos of known
\* modifiers and a combo whose first part is no known modifier
ExecutorTargets == { "y", "tab", "ctrl + y", "ctrl + shift + tab", "fn + y" }

ExecutorNext ==
  \/ \E cfg \in CallbackConfigs : Construct(cfg, <<>>, {}, {})
  \/ \E tk \in ExecutorTargets, fail \in BOOLEAN :
       Len(typed) < MaxInputs /\ HandleMappingAction(tk, fail)

\* The executor on the GUI thread, over the target combos.
SpecExecutor == InitStore /\ [][ExecutorNext]_vars

\* a part of a combo as the key it names: the key of a known modifier or key
\* name, and the part itself otherwise
NamedKey(tok) == IF ModMap(tok) # "None" THEN ModMap(tok) ELSE KeyOf(tok)

\* C38: for a target combo with the parts m1..mk, K the executor injects
\* press(m1)..press(mk), press(K), release(K), release(mk)..release(m1), each
\* part that is no known modifier or key name as a literal key; when the
\* press of K fails, it injects the presses of m1..mk and their releases in
\* reverse order.
C38_ComboOrder ==
  [][ \A tk \in ExecutorTargets, fail \in BOOLEAN :
        HandleMappingAction(tk, fail) =>
          LET p    == Parts(tk)
              mods == [i \in 1..(Len(p) - 1) |-> NamedKey(p[i])]
              K    == NamedKey(p[Len(p)])
          IN typed'[Len(typed')].keys =
               Presses(mods)
                 \o (IF fail THEN <<>> ELSE << [op |-> "press", key |-> K],
                                               [op |-> "release", key |-> K] >>)
                 \o Releases(Reverse(mods)) ]_vars

\* ------------------------------------------------------------ the id list
\* C39: after every completed operation the id list holds exactly the ids of
\* the mappings of the table, each once, in the table's iteration order.
C39_IdListConsistent ==
  /\ mapping_ids = FlattenIds(mappings)
  /\ \A i, j \in 1..Len(mapping_ids) : mapping_ids[i] = mapping_ids[j] => i = j

\* ------------------------------------------------------------------ stop()
\* C40: once stop() was called, no check of the worker at the head of a step
\* lets a step begin, an injection belongs to the step that was in progress,
\* the worker's loop ends with the macro-running flag cleared and stays ended,
\* whatever is enqueued meanwhile or later.
C40_StopEnds ==
  /\ [][ (stop_flag /\ worker.pc = "check") =>
           worker'.pc \notin {"act", "sleep_loop"} ]_vars
  /\ [][ (stop_flag /\ typed' # typed /\ typed' # <<>>) =>
           /\ worker.pc \in {"act", "combo"}
           /\ typed'[Len(typed')].i = worker.i ]_vars
  /\ (stop_flag ~> (worker.pc = "done" /\ ~macro_running))
  /\ [][ worker.pc = "done" => worker'.pc = "done" /\ ~macro_running' ]_vars

\* C40 happens: the thread was stopped in the middle of the macro of key
\* actions; its loop has ended after one injection, with the flag cleared.
C40_Witness ==
  /\ stop_flag /\ worker.pc = "done" /\ ~macro_running /\ ~abort_flag
  /\ Len(typed) = 1 /\ typed[1].kind = "key"

\* a macro enqueued after stop() waits in the queue of the ended loop
C40_QueuedWitness ==
  /\ stop_flag /\ worker.pc = "done" /\ ~macro_running
  /\ macro_queue # <<>>

====
